---- MODULE Spec2Model ----
(***************************************************************************)
(* Radial layout of an extracted finite-state machine                      *)
(* (getRadialLayoutElements, layout utilities of the FSM visualizer).      *)
(*                                                                         *)
(* Strings that the code inspects character by character (state labels)    *)
(* are sequences of one-character strings.  State ids are opaque strings:  *)
(* the code only compares them for equality.  A position is kept in polar  *)
(* form: the radius and the angle as an exact fraction num/den of a full   *)
(* turn, so (x, y) = (radius*cos(2*pi*num/den), radius*sin(2*pi*num/den)). *)
(***************************************************************************)
EXTENDS Integers, Sequences, FiniteSets

VARIABLES fsmData, hubId, sortedRimNodes, layoutedNodes, layoutedEdges, pc

\* The greedy chain traversal followed iteration by iteration: the set of
\* visited ids, the id the next iteration starts from and the number of
\* iterations run.
VARIABLES visited, currentId, iterations

\* The edge renderer: the arguments of a fan of parallel edges with the
\* offsets computed for them, and the props of one RadialEdge with the path
\* it draws.
VARIABLES fan, props, path

\* The application: the canvas (nodes, edges), the graph description it was
\* generated from, the drawing preferences, the undo and redo stacks and the
\* clock.
VARIABLES nodes, edges, currentFSMData, defaultEdgeWidth, isCurved,
          isConnectMode, past, future, now

\* The click-to-connect source waiting for its target, the extraction in
\* flight (the closure handleVisualize holds while it awaits), the processing
\* flag and the error banner.
VARIABLES sourceSelection, request, isProcessing, error

loopVars == <<visited, currentId, iterations>>

layoutVars == <<fsmData, hubId, sortedRimNodes, layoutedNodes, layoutedEdges,
                loopVars>>

edgeVars == <<fan, props, path>>

uiVars == <<sourceSelection, request, isProcessing, error>>

appVars == <<nodes, edges, currentFSMData, defaultEdgeWidth, isCurved,
             isConnectMode, past, future, now, uiVars>>

vars == <<layoutVars, pc, edgeVars, appVars>>

(***************************************************************************)
(* Bounds of the explored inputs.                                          *)
(***************************************************************************)
\* Spec: state lists with at most one idle-labelled state.
MaxStates == 4

MaxTrans == 2

\* SpecLabels: state lists with freely chosen labels.
MaxLabelStates == 4

MaxLabelTrans == 1

\* Rings long enough to hold two states that are not adjacent: up to
\* MaxRingStates states joined by at most MaxRingTrans transitions.
MaxRingStates == 5

MaxRingTrans == 1

\* Fans of up to MaxSiblings parallel edges, spaced by 1..MaxSpacing.
MaxSiblings == 6

MaxSpacing == 50

\* One rendered edge is one of at most MaxEdgeSiblings parallel edges.
MaxEdgeSiblings == 2

\* The application is followed for MaxTime user actions.
MaxTime == 3

\* At most MaxSelected nodes and MaxSelected edges are selected at a time.
MaxSelected == 2

\* At most MaxGrouped nodes are selected when Group or Ungroup is pressed.
MaxGrouped == 3

(***************************************************************************)
(* Input domain.                                                           *)
(***************************************************************************)
IdPool == <<"s1", "s2", "s3", "s4", "s5", "s6">>

\* An id that no state of the input carries (a dangling reference).
DanglingId == "zz"

\* The value of hubId when no hub was found (undefined in the source).
NoHub == "undefined"

LowerChars == <<"a", "d", "e", "i", "l", "m", "n", "r", "s", "t", "u", "w">>

UpperChars == <<"A", "D", "E", "I", "L", "M", "N", "R", "S", "T", "U", "W">>

\* String.prototype.toUpperCase on one character.
UpperChar(c) ==
    IF \E k \in DOMAIN LowerChars : LowerChars[k] = c
    THEN UpperChars[CHOOSE k \in DOMAIN LowerChars : LowerChars[k] = c]
    ELSE c

\* String.prototype.toUpperCase.
ToUpperCase(s) == [k \in DOMAIN s |-> UpperChar(s[k])]

IdleLabel == <<"I", "d", "l", "e">>

StIdleLabel == <<"S", "T", "_", "I", "D", "L", "E">>

RunLabel == <<"R", "U", "N">>

\* Labels the inputs are drawn from: a mixed-case idle word, the prefixed
\* idle word and an ordinary state name.
Labels == {IdleLabel, StIdleLabel, RunLabel}

\* The label list of line 189.
Vocabulary ==
    { <<"I", "D", "L", "E">>,
      <<"R", "E", "S", "E", "T">>,
      <<"W", "A", "I", "T">>,
      <<"M", "A", "I", "N">>,
      <<"S", "T", "_", "I", "D", "L", "E">> }

Min(S) == CHOOSE x \in S : \A y \in S : x <= y

Abs(x) == IF x < 0 THEN -x ELSE x

\* Sequences over S of length at most n.
SeqUpTo(S, n) == UNION { [1..k -> S] : k \in 0..n }

\* n FSMState records with pairwise distinct ids and the given labels.
StateList(n, lab) == [k \in 1..n |-> [id |-> IdPool[k], label |-> lab[k]]]

\* Label vectors with freely chosen labels.
FreeLabels(n) == [1..n -> Labels]

\* Label vectors with at most one idle label, all others ordinary.
SingleIdleLabels(n) ==
    { [k \in 1..n |-> IF k = h THEN IdleLabel ELSE RunLabel] : h \in 0..n }

\* FSMTransition lists over the ids of `states` and one dangling id.
TransitionLists(states, maxLen) ==
    LET ends == { states[k].id : k \in DOMAIN states } \cup {DanglingId}
    IN  SeqUpTo([source : ends, target : ends], maxLen)

(***************************************************************************)
(* getRadialLayoutElements, step 1: hub.                                   *)
(***************************************************************************)
\* A degree that counts a self-loop twice (once as source, once as target).
getDegreeBothEnds(nodeId, transitions) ==
    Cardinality({ k \in DOMAIN transitions : transitions[k].source = nodeId })
    + Cardinality({ k \in DOMAIN transitions : transitions[k].target = nodeId })

\* transitions.filter(t => t.source === nodeId || t.target === nodeId).length
getDegree(nodeId, transitions) ==
    Cardinality({ k \in DOMAIN transitions :
                    transitions[k].source = nodeId \/ transitions[k].target = nodeId })

\* A label match that compares the label as written, without toUpperCase.
LabelHubCaseSensitive(states) ==
    LET hits == { k \in DOMAIN states : states[k].label \in Vocabulary }
    IN  IF hits = {} THEN NoHub ELSE states[Min(hits)].id

\* states.find(s => [...].includes(s.label.toUpperCase()))?.id
LabelHub(states) ==
    LET hits == { k \in DOMAIN states : ToUpperCase(states[k].label) \in Vocabulary }
    IN  IF hits = {} THEN NoHub ELSE states[Min(hits)].id

\* Insertion of x into a list sorted by descending degree, after every
\* element the comparator does not order behind x (a stable sort).
RECURSIVE InsertByDegree(_, _, _)
InsertByDegree(x, sorted, transitions) ==
    IF sorted = <<>> THEN <<x>>
    ELSE IF getDegree(x.id, transitions) - getDegree(sorted[1].id, transitions) > 0
         THEN <<x>> \o sorted
         ELSE <<sorted[1]>> \o InsertByDegree(x, Tail(sorted), transitions)

\* [...states].sort((a, b) => degB - degA): Array.prototype.sort is stable.
RECURSIVE SortByDegree(_, _)
SortByDegree(states, transitions) ==
    IF states = <<>> THEN <<>>
    ELSE InsertByDegree(states[Len(states)],
                        SortByDegree(SubSeq(states, 1, Len(states) - 1), transitions),
                        transitions)

\* sortedByDegree[0]?.id
DegreeHub(states, transitions) ==
    LET sortedByDegree == SortByDegree(states, transitions)
    IN  IF sortedByDegree = <<>> THEN NoHub ELSE sortedByDegree[1].id

\* let hubId = ...find(...)?.id; if (!hubId) { hubId = sortedByDegree[0]?.id }
SelectHub(data) ==
    LET byLabel == LabelHub(data.states)
    IN  IF byLabel # NoHub THEN byLabel
        ELSE DegreeHub(data.states, data.transitions)

\* The input's state list after a degree sort that reorders fsmData.states
\* itself instead of a copy.
StatesSortedInPlace(data) ==
    IF LabelHub(data.states) # NoHub THEN data.states
    ELSE SortByDegree(data.states, data.transitions)

\* fsmData.states when the call returns.  The one mutating call of the
\* function, Array.prototype.sort at line 193, reorders the array it is
\* called on, which is the copy [...fsmData.states]; every other step only
\* reads (find, filter, some, forEach, map).
StatesAfterCall(data) == data.states

(***************************************************************************)
(* Step 2: rim sorting.                                                    *)
(***************************************************************************)
\* states.filter(s => s.id !== hubId)
RimNodes(states, hub) == SelectSeq(states, LAMBDA s : s.id # hub)

IdsOf(list) == { list[k].id : k \in DOMAIN list }

HasId(list, id) == \E k \in DOMAIN list : list[k].id = id

\* Array.prototype.findIndex, 1-based; 0 when absent (-1 in the source).
FindIndex(list, id) ==
    IF HasId(list, id) THEN Min({ k \in DOMAIN list : list[k].id = id }) ELSE 0

\* Start candidates taken from every transition, not only the hub's.
StartCandidatesAnySource(transitions, hub) ==
    LET sel == SelectSeq(transitions, LAMBDA t : t.target # hub)
    IN  [k \in DOMAIN sel |-> sel[k].target]

\* Targets of the hub's transitions to another id, in declaration order.
StartCandidates(transitions, hub) ==
    LET sel == SelectSeq(transitions, LAMBDA t : t.source = hub /\ t.target # hub)
    IN  [k \in DOMAIN sel |-> sel[k].target]

\* startCandidates.find(id => rimNodes.some(n => n.id === id)) || rimNodes[0].id
StartId(rimNodes, transitions, hub) ==
    LET found == SelectSeq(StartCandidates(transitions, hub),
                           LAMBDA id : HasId(rimNodes, id))
    IN  IF found # <<>> THEN found[1] ELSE rimNodes[1].id

\* The neighbors had the filter not asked for unvisited targets.
NeighborsVisitedToo(transitions, current, seen, hub) ==
    LET sel == SelectSeq(transitions,
                         LAMBDA t : t.source = current /\ t.target # hub)
    IN  [k \in DOMAIN sel |-> sel[k].target]

\* Unvisited targets of the current id's transitions other than the hub.
Neighbors(transitions, current, seen, hub) ==
    LET sel == SelectSeq(transitions,
                         LAMBDA t : t.source = current /\ t.target \notin seen
                                    /\ t.target # hub)
    IN  [k \in DOMAIN sel |-> sel[k].target]

\* The while loop: one unfolding per iteration.
RECURSIVE GreedyChain(_, _, _, _, _, _)
GreedyChain(rimNodes, transitions, hub, seen, sorted, current) ==
    IF ~(Cardinality(seen) < Len(rimNodes)) THEN sorted
    ELSE
      LET fresh    == current \notin seen
          visited2 == seen \cup {current}
          sorted2  == IF fresh /\ HasId(rimNodes, current)
                      THEN Append(sorted, rimNodes[FindIndex(rimNodes, current)])
                      ELSE sorted
          neighbors == Neighbors(transitions, current, visited2, hub)
          unvisited == { k \in DOMAIN rimNodes : rimNodes[k].id \notin visited2 }
      IN  IF Len(neighbors) > 0
          THEN GreedyChain(rimNodes, transitions, hub, visited2, sorted2, neighbors[1])
          ELSE IF unvisited = {} THEN sorted2
               ELSE GreedyChain(rimNodes, transitions, hub, visited2, sorted2,
                                rimNodes[Min(unvisited)].id)

SortRim(data, hub) ==
    LET rimNodes == RimNodes(data.states, hub)
    IN  IF Len(rimNodes) > 0
        THEN GreedyChain(rimNodes, data.transitions, hub, {}, <<>>,
                         StartId(rimNodes, data.transitions, hub))
        ELSE <<>>

(***************************************************************************)
(* Step 3: positioning.                                                    *)
(***************************************************************************)
RADIUS == 380

\* position: { x: 0, y: 0 }
Origin == [radius |-> 0, num |-> 0, den |-> 1]

\* A rim position without the quarter turn that puts index 0 at the top.
RimPositionFromRight(index, len) ==
    [radius |-> RADIUS, num |-> 4 * index, den |-> 4 * len]

\* angle = 2*PI*index/len, finalAngle = angle - PI/2, position =
\* (RADIUS*cos(finalAngle), RADIUS*sin(finalAngle)); index is 0-based.
\* In turns: index/len - 1/4 = (4*index - len) / (4*len).
RimPosition(index, len) ==
    [radius |-> RADIUS, num |-> 4 * index - len, den |-> 4 * len]

\* A hub node placed like a rim node instead of at the origin.
HubNodesOnRim(states, hub) ==
    IF HasId(states, hub)
    THEN LET hubNodeData == states[FindIndex(states, hub)]
         IN  << [id |-> hubNodeData.id, type |-> "circular",
                 data |-> [label |-> hubNodeData.label],
                 position |-> RimPosition(0, 1)] >>
    ELSE <<>>

\* The hub node, when the hub id names a state.
HubNodes(states, hub) ==
    IF HasId(states, hub)
    THEN LET hubNodeData == states[FindIndex(states, hub)]
         IN  << [id |-> hubNodeData.id, type |-> "circular",
                 data |-> [label |-> hubNodeData.label],
                 position |-> Origin] >>
    ELSE <<>>

\* sortedRimNodes.forEach((state, index) => layoutedNodes.push(...))
RimLayout(sorted) ==
    [k \in DOMAIN sorted |->
        [id |-> sorted[k].id, type |-> "circular",
         data |-> [label |-> sorted[k].label],
         position |-> RimPosition(k - 1, Len(sorted))]]

LayoutNodes(states, hub, sorted) == HubNodes(states, hub) \o RimLayout(sorted)

(***************************************************************************)
(* Step 4: edges.                                                          *)
(***************************************************************************)
\* A key that forgets the direction of the transition.
EdgeKeyUndirected(trans) == {trans.source, trans.target}

\* `${trans.source}->${trans.target}`
EdgeKey(trans) == <<trans.source, "->", trans.target>>

\* edgeGroups[key] after the forEach: the number of transitions with that
\* key (the property is absent, undefined, when there is none: 0 here).
EdgeGroups(transitions, key) ==
    Cardinality({ k \in DOMAIN transitions : EdgeKey(transitions[k]) = key })

\* edgeIndices[`radial_${i}`] after the forEach: the value edgeGroups[key]
\* had when the k-th transition was visited (k = i + 1).
EdgeIndices(transitions, k) ==
    Cardinality({ j \in 1..(k - 1) :
                    EdgeKey(transitions[j]) = EdgeKey(transitions[k]) })

\* Adjacency computed for every transition, self-loops and hub connections
\* included.
IsNeighborUnguarded(trans, hub, sorted) ==
    LET sIdx == FindIndex(sorted, trans.source)
        tIdx == FindIndex(sorted, trans.target)
        diff == Abs(sIdx - tIdx)
    IN  IF sIdx # 0 /\ tIdx # 0
        THEN diff = 1 \/ diff = Len(sorted) - 1
        ELSE FALSE

\* Adjacency without the wrap-around from the last ring slot to the first.
IsNeighborNoWrap(trans, hub, sorted) ==
    LET isSelfLoop      == trans.source = trans.target
        isHubConnection == trans.source = hub \/ trans.target = hub
        sIdx == FindIndex(sorted, trans.source)
        tIdx == FindIndex(sorted, trans.target)
        diff == Abs(sIdx - tIdx)
    IN  IF ~isHubConnection /\ ~isSelfLoop /\ sIdx # 0 /\ tIdx # 0
        THEN diff = 1
        ELSE FALSE

\* Rim-to-rim adjacency of lines 298-308.
IsNeighbor(trans, hub, sorted) ==
    LET isSelfLoop      == trans.source = trans.target
        isHubConnection == trans.source = hub \/ trans.target = hub
        sIdx == FindIndex(sorted, trans.source)
        tIdx == FindIndex(sorted, trans.target)
        diff == Abs(sIdx - tIdx)
    IN  IF ~isHubConnection /\ ~isSelfLoop /\ sIdx # 0 /\ tIdx # 0
        THEN diff = 1 \/ diff = Len(sorted) - 1
        ELSE FALSE

Digits == <<"0", "1", "2", "3", "4", "5", "6", "7", "8", "9">>

\* Number.prototype.toString of a natural number: its decimal digits.
RECURSIVE toString(_)
toString(n) ==
    IF n < 10 THEN <<Digits[n + 1]>>
    ELSE Append(toString(n \div 10), Digits[(n % 10) + 1])

\* An edge id without the transition index.
EdgeIdNoIndex(i, trans) == <<"radial_", trans.source, "_", trans.target>>

\* `radial_${i}_${trans.source}_${trans.target}`
EdgeId(i, trans) == <<"radial_", toString(i), "_", trans.source, "_", trans.target>>

\* The edge built for the k-th transition (i = k - 1 in the source).
LayoutEdge(transitions, k, hub, sorted) ==
    LET trans == transitions[k]
        count == EdgeGroups(transitions, EdgeKey(trans))
        index == EdgeIndices(transitions, k)
    IN  [id     |-> EdgeId(k - 1, trans),
         source |-> trans.source,
         target |-> trans.target,
         type   |-> "radial",
         label  |-> toString((k - 1) + 1),
         style  |-> [strokeWidth |-> 2],
         data   |-> [isHubConnection |-> trans.source = hub \/ trans.target = hub,
                     isSelfLoop      |-> trans.source = trans.target,
                     isNeighbor      |-> IsNeighbor(trans, hub, sorted),
                     hubId           |-> hub,
                     siblingCount    |-> IF count = 0 THEN 1 ELSE count,
                     siblingIndex    |-> index]]

LayoutEdges(transitions, hub, sorted) ==
    [k \in DOMAIN transitions |-> LayoutEdge(transitions, k, hub, sorted)]

(***************************************************************************)
(* Numbers of the edge renderer.                                           *)
(*                                                                         *)
(* A number is (k + c*cos(A) + s*sin(A)) / den with integers k, c, s and   *)
(* den > 0, where A is the fixed angle OFFSET_ANGLE of the self-loop: the   *)
(* arithmetic is exact and cos(A), sin(A) stay symbolic.  den = 0 marks a  *)
(* value that is not finite: NaN (k = 0) or an infinity (k = 1 or -1).     *)
(***************************************************************************)
RECURSIVE GCD(_, _)
GCD(a, b) == IF b = 0 THEN a ELSE GCD(b, a % b)

\* The number (k + c*cos(A) + s*sin(A)) / den in lowest terms.
Num(k, c, s, den) ==
    LET g    == GCD(GCD(Abs(k), Abs(c)), GCD(Abs(s), Abs(den)))
        sign == IF den < 0 THEN -1 ELSE 1
    IN  [k   |-> sign * (k \div g),
         c   |-> sign * (c \div g),
         s   |-> sign * (s \div g),
         den |-> sign * (den \div g)]

Whole(n) == [k |-> n, c |-> 0, s |-> 0, den |-> 1]

Ratio(n, d) == Num(n, 0, 0, d)

NaN == [k |-> 0, c |-> 0, s |-> 0, den |-> 0]

Infinity(sign) == [k |-> sign, c |-> 0, s |-> 0, den |-> 0]

IsFinite(a) == a.den # 0

\* A number that does not depend on the angle.
IsRational(a) == IsFinite(a) /\ a.c = 0 /\ a.s = 0

Sign(a) == IF a.k > 0 THEN 1 ELSE IF a.k < 0 THEN -1 ELSE 0

\* The element of a one-element set: the operators below bind their
\* operands to x and y this way, so that each operand is evaluated once.
Only(S) == CHOOSE v \in S : TRUE

\* a + b; an operand that is not finite gives NaN (the renderer adds no
\* infinities).
Plus(a, b) ==
    Only({ IF ~IsFinite(x) \/ ~IsFinite(y) THEN NaN
           ELSE Num(x.k * y.den + y.k * x.den,
                    x.c * y.den + y.c * x.den,
                    x.s * y.den + y.s * x.den,
                    x.den * y.den) : x \in {a}, y \in {b} })

Neg(a) == Only({ [x EXCEPT !.k = -x.k, !.c = -x.c, !.s = -x.s] : x \in {a} })

Minus(a, b) == Plus(a, Neg(b))

\* a * b, where one factor does not depend on the angle (the renderer never
\* multiplies two numbers that do).
Times(a, b) ==
    Only({ IF ~IsFinite(x) \/ ~IsFinite(y) THEN NaN
           ELSE CASE IsRational(y) ->
                       Num(x.k * y.k, x.c * y.k, x.s * y.k, x.den * y.den)
                  [] IsRational(x) ->
                       Num(y.k * x.k, y.c * x.k, y.s * x.k, x.den * y.den)
           : x \in {a}, y \in {b} })

\* a / b for a divisor that does not depend on the angle: 0/0 is NaN and
\* x/0 an infinity, as in IEEE arithmetic.
Divide(a, b) ==
    Only({ IF ~IsFinite(x) \/ ~IsFinite(y) THEN NaN
           ELSE IF y.k = 0
                THEN (IF x.k = 0 /\ x.c = 0 /\ x.s = 0 THEN NaN
                      ELSE Infinity(Sign(x)))
                ELSE Num(x.k * y.den, x.c * y.den, x.s * y.den, x.den * y.k)
           : x \in {a}, y \in {b} })

\* The natural number whose square is n (n is a perfect square).
ISqrt(n) == CHOOSE r \in 0..n : r * r = n

\* Math.sqrt of the square of a rational number.
Sqrt(a) ==
    Only({ IF ~IsFinite(x) \/ x.k < 0 THEN NaN
           ELSE [k |-> ISqrt(x.k), c |-> 0, s |-> 0, den |-> ISqrt(x.den)]
           : x \in {a} })

\* a < b for numbers that do not depend on the angle; false when either is
\* NaN.
Less(a, b) ==
    /\ IsFinite(a) /\ IsFinite(b)
    /\ a.k * b.den < b.k * a.den

\* Math.max and Math.min of two numbers: NaN when either is NaN.
MathMax(a, b) ==
    Only({ IF ~IsFinite(x) \/ ~IsFinite(y) THEN NaN
           ELSE IF Less(x, y) THEN y ELSE x : x \in {a}, y \in {b} })

MathMin(a, b) ==
    Only({ IF ~IsFinite(x) \/ ~IsFinite(y) THEN NaN
           ELSE IF Less(y, x) THEN y ELSE x : x \in {a}, y \in {b} })

\* Math.cos(OFFSET_ANGLE) and Math.sin(OFFSET_ANGLE).
CosA == [k |-> 0, c |-> 1, s |-> 0, den |-> 1]

SinA == [k |-> 0, c |-> 0, s |-> 1, den |-> 1]

(***************************************************************************)
(* Geometry helpers of the edge renderer.                                  *)
(***************************************************************************)
NODE_RADIUS == 48

normalize(x, y) ==
    Only({ IF len = Whole(0) THEN [x |-> Whole(0), y |-> Whole(0)]
           ELSE [x |-> Divide(x, len), y |-> Divide(y, len)]
           : len \in {Sqrt(Plus(Times(x, x), Times(y, y)))} })

getPointOnCircle(centerX, centerY, targetX, targetY) ==
    Only({ [x |-> Plus(centerX, Times(n.x, Whole(NODE_RADIUS))),
            y |-> Plus(centerY, Times(n.y, Whole(NODE_RADIUS)))]
           : n \in {normalize(Minus(targetX, centerX),
                               Minus(targetY, centerY))} })

\* An offset centred on count / 2 instead of (count - 1) / 2.
getMultiEdgeCurvatureOffsetOffCentre(index, count, spacing) ==
    IF count <= 1 THEN Whole(0)
    ELSE Times(Minus(Whole(index), Ratio(count, 2)), Whole(spacing))

getMultiEdgeCurvatureOffset(index, count, spacing) ==
    IF count <= 1 THEN Whole(0)
    ELSE LET centeredIndex == Minus(Whole(index), Divide(Whole(count - 1), Whole(2)))
         IN  Times(centeredIndex, Whole(spacing))

DefaultSpacing == 50

\* Lines 79-108: the loop drawn for a transition from a state to itself.
SelfLoopPath(sourceX, sourceY, siblingIndex) ==
    LET n         == normalize(sourceX, sourceY)
        LOOP_SIZE == Whole(70 + (siblingIndex * 15))
        sx == Plus(Times(n.x, CosA), Times(n.y, SinA))
        sy == Plus(Times(Neg(n.x), SinA), Times(n.y, CosA))
        ex == Minus(Times(n.x, CosA), Times(n.y, SinA))
        ey == Plus(Times(n.x, SinA), Times(n.y, CosA))
        startX == Plus(sourceX, Times(sx, Whole(NODE_RADIUS)))
        startY == Plus(sourceY, Times(sy, Whole(NODE_RADIUS)))
        endX   == Plus(sourceX, Times(ex, Whole(NODE_RADIUS)))
        endY   == Plus(sourceY, Times(ey, Whole(NODE_RADIUS)))
        c1x == Plus(startX, Times(sx, LOOP_SIZE))
        c1y == Plus(startY, Times(sy, LOOP_SIZE))
        c2x == Plus(endX, Times(ex, LOOP_SIZE))
        c2y == Plus(endY, Times(ey, LOOP_SIZE))
        Blend(p0, p1, p2, p3) ==
            Plus(Plus(Times(Ratio(1, 8), p0), Times(Ratio(3, 8), p1)),
                 Plus(Times(Ratio(3, 8), p2), Times(Ratio(1, 8), p3)))
    IN  [kind  |-> "C",
         start |-> [x |-> startX, y |-> startY],
         c1    |-> [x |-> c1x, y |-> c1y],
         c2    |-> [x |-> c2x, y |-> c2y],
         end   |-> [x |-> endX, y |-> endY],
         label |-> [x |-> Blend(startX, c1x, c2x, endX),
                    y |-> Blend(startY, c1y, c2y, endY)]]

\* Lines 110-146: the connection between two nodes, straight or arched.
GeneralPath(sourceX, sourceY, targetX, targetY, isStraight, curvatureOffset) ==
    LET start == getPointOnCircle(sourceX, sourceY, targetX, targetY)
        end   == getPointOnCircle(targetX, targetY, sourceX, sourceY)
        Half(a, b) == Divide(Plus(a, b), Whole(2))
    IN  IF isStraight
        THEN [kind  |-> "L",
              start |-> start,
              end   |-> end,
              label |-> [x |-> Half(start.x, end.x), y |-> Half(start.y, end.y)]]
        ELSE LET mx  == Half(start.x, end.x)
                 my  == Half(start.y, end.y)
                 dx  == Minus(end.x, start.x)
                 dy  == Minus(end.y, start.y)
                 len == Sqrt(Plus(Times(dx, dx), Times(dy, dy)))
                 nx  == Divide(Neg(dy), len)
                 ny  == Divide(dx, len)
                 archHeight ==
                     Plus(MathMin(Whole(80),
                                  MathMax(Whole(30), Times(len, Ratio(15, 100)))),
                          curvatureOffset)
                 cx == Plus(mx, Times(nx, archHeight))
                 cy == Plus(my, Times(ny, archHeight))
                 Blend(p0, p1, p2) ==
                     Plus(Plus(Times(Ratio(1, 4), p0), Times(Ratio(1, 2), p1)),
                          Times(Ratio(1, 4), p2))
             IN  [kind    |-> "Q",
                  start   |-> start,
                  control |-> [x |-> cx, y |-> cy],
                  end     |-> end,
                  label   |-> [x |-> Blend(start.x, cx, end.x),
                               y |-> Blend(start.y, cy, end.y)]]

(***************************************************************************)
(* The state machine: an input graph description, then one invocation.     *)
(***************************************************************************)
\* No edge is being rendered.
EdgeIdle ==
    /\ fan = [count |-> 0, spacing |-> 0, offsets |-> <<>>]
    /\ props = [kind |-> "none"]
    /\ path = [kind |-> "none"]

\* The application as it starts.
AppIdle ==
    /\ nodes = <<>>
    /\ edges = <<>>
    /\ currentFSMData = [kind |-> "null"]
    /\ defaultEdgeWidth = 2
    /\ isCurved = TRUE
    /\ isConnectMode = TRUE
    /\ past = <<>>
    /\ future = <<>>
    /\ now = 0
    /\ sourceSelection = [kind |-> "null"]
    /\ request = [kind |-> "null"]
    /\ isProcessing = FALSE
    /\ error = [kind |-> "null"]

\* No layout is being computed.
LayoutIdle ==
    /\ fsmData = [states |-> <<>>, transitions |-> <<>>]
    /\ hubId = NoHub
    /\ sortedRimNodes = <<>>
    /\ layoutedNodes = <<>>
    /\ layoutedEdges = <<>>
    /\ visited = {}
    /\ currentId = NoHub
    /\ iterations = 0

\* The variables before the invocation, for the input graph `data`.
Start(data) ==
    /\ fsmData = data
    /\ hubId = NoHub
    /\ sortedRimNodes = <<>>
    /\ layoutedNodes = <<>>
    /\ layoutedEdges = <<>>
    /\ visited = {}
    /\ currentId = NoHub
    /\ iterations = 0
    /\ pc = "input"
    /\ EdgeIdle
    /\ AppIdle

Init ==
    \E n \in 0..MaxStates :
      \E lab \in SingleIdleLabels(n) :
        \E transitions \in TransitionLists(StateList(n, lab), MaxTrans) :
          Start([states |-> StateList(n, lab), transitions |-> transitions])

InitLabels ==
    \E n \in 0..MaxLabelStates :
      \E lab \in FreeLabels(n) :
        \E transitions \in TransitionLists(StateList(n, lab), MaxLabelTrans) :
          Start([states |-> StateList(n, lab), transitions |-> transitions])

getRadialLayoutElements ==
    /\ pc = "input"
    /\ hubId' = SelectHub(fsmData)
    /\ sortedRimNodes' = SortRim(fsmData, hubId')
    /\ layoutedNodes' = LayoutNodes(fsmData.states, hubId', sortedRimNodes')
    /\ layoutedEdges' = LayoutEdges(fsmData.transitions, hubId', sortedRimNodes')
    /\ pc' = "done"
    /\ fsmData' = [fsmData EXCEPT !.states = StatesAfterCall(fsmData)]
    /\ UNCHANGED <<loopVars, edgeVars, appVars>>

Next == getRadialLayoutElements

Spec == Init /\ [][Next]_vars

SpecLabels == InitLabels /\ [][Next]_vars

(***************************************************************************)
(* The same function followed step by step through its while loop          *)
(* (lines 205-238).                                                        *)
(***************************************************************************)
\* The loop is followed for at most MaxIterations iterations.
MaxIterations == MaxStates + 1

\* const rimNodes = fsmData.states.filter(s => s.id !== hubId), read once
\* the hub is chosen.
rimNodesOfHub == RimNodes(fsmData.states, hubId)

\* Lines 188-213: the hub is chosen and the traversal is set up.
enterLoop ==
    /\ pc = "input"
    /\ hubId' = SelectHub(fsmData)
    /\ sortedRimNodes' = <<>>
    /\ visited' = {}
    /\ LET rim == RimNodes(fsmData.states, hubId')
       IN  IF Len(rim) > 0
           THEN /\ currentId' = StartId(rim, fsmData.transitions, hubId')
                /\ pc' = "while"
           ELSE /\ currentId' = currentId
                /\ pc' = "place"
    /\ UNCHANGED <<fsmData, layoutedNodes, layoutedEdges, iterations,
                   edgeVars, appVars>>

\* Lines 216-237: the loop test holds and the body runs once.
whileBody ==
    /\ pc = "while"
    /\ Cardinality(visited) < Len(rimNodesOfHub)
    /\ iterations < MaxIterations
    /\ iterations' = iterations + 1
    /\ visited' = visited \cup {currentId}
    /\ sortedRimNodes' =
          IF currentId \notin visited /\ HasId(rimNodesOfHub, currentId)
          THEN Append(sortedRimNodes, rimNodesOfHub[FindIndex(rimNodesOfHub, currentId)])
          ELSE sortedRimNodes
    /\ LET neighbors == Neighbors(fsmData.transitions, currentId, visited', hubId)
           unvisited == { k \in DOMAIN rimNodesOfHub : rimNodesOfHub[k].id \notin visited' }
       IN  IF Len(neighbors) > 0
           THEN currentId' = neighbors[1] /\ pc' = "while"
           ELSE IF unvisited = {}
                THEN currentId' = currentId /\ pc' = "place"
                ELSE currentId' = rimNodesOfHub[Min(unvisited)].id /\ pc' = "while"
    /\ UNCHANGED <<fsmData, hubId, layoutedNodes, layoutedEdges, edgeVars,
                   appVars>>

\* Line 216: the loop test fails.
whileExit ==
    /\ pc = "while"
    /\ ~(Cardinality(visited) < Len(rimNodesOfHub))
    /\ pc' = "place"
    /\ UNCHANGED <<layoutVars, edgeVars, appVars>>

\* Lines 240-349: nodes are placed and one edge is made per transition.
placeElements ==
    /\ pc = "place"
    /\ layoutedNodes' = LayoutNodes(fsmData.states, hubId, sortedRimNodes)
    /\ layoutedEdges' = LayoutEdges(fsmData.transitions, hubId, sortedRimNodes)
    /\ pc' = "done"
    /\ UNCHANGED <<fsmData, hubId, sortedRimNodes, loopVars, edgeVars, appVars>>

NextLoop == enterLoop \/ whileBody \/ whileExit \/ placeElements

\* The function runs to its end once called: a single thread of control.
SpecLoop == Init /\ [][NextLoop]_vars /\ WF_vars(NextLoop)

InitRing ==
    \E n \in 0..MaxRingStates :
      \E lab \in SingleIdleLabels(n) :
        \E transitions \in TransitionLists(StateList(n, lab), MaxRingTrans) :
          Start([states |-> StateList(n, lab), transitions |-> transitions])

SpecRing == InitRing /\ [][Next]_vars

(***************************************************************************)
(* The fan of parallel edges: getMultiEdgeCurvatureOffset applied to every *)
(* index of a group of `count` siblings.                                   *)
(***************************************************************************)
InitFan ==
    /\ LayoutIdle
    /\ pc = "input"
    /\ \E count \in 1..MaxSiblings : \E spacing \in 1..MaxSpacing :
          fan = [count |-> count, spacing |-> spacing, offsets |-> <<>>]
    /\ props = [kind |-> "none"]
    /\ path = [kind |-> "none"]
    /\ AppIdle

FanOffsets ==
    /\ pc = "input"
    /\ fan.count >= 1
    /\ fan' = [fan EXCEPT !.offsets =
                  [i \in 1..fan.count |->
                     getMultiEdgeCurvatureOffset(i - 1, fan.count, fan.spacing)]]
    /\ pc' = "done"
    /\ UNCHANGED <<layoutVars, props, path, appVars>>

NextFan == FanOffsets

SpecFan == InitFan /\ [][NextFan]_vars

(***************************************************************************)
(* One RadialEdge: the props React Flow passes, then the path drawn.       *)
(*                                                                         *)
(* The coordinates are the centres of the two nodes (handles "center" and  *)
(* "center-t").  They are drawn from points whose distances are whole      *)
(* numbers, where Math.sqrt is exact.                                      *)
(***************************************************************************)
Coordinates == {-96, -48, 0, 36, 48, 96}

Points == [x : Coordinates, y : Coordinates]

IsSquare(n) == \E r \in 0..(4 * NODE_RADIUS + 96) : r * r = n

WholeDistance(p, q) ==
    IsSquare((p.x - q.x) * (p.x - q.x) + (p.y - q.y) * (p.y - q.y))

\* (siblingIndex, siblingCount) of an edge in a group of at most
\* MaxEdgeSiblings parallel edges.
SiblingRanks ==
    { r \in [index : 0..(MaxEdgeSiblings - 1), count : 1..MaxEdgeSiblings] :
        r.index < r.count }

EdgeProps(source, target, isSelfLoop, rank, isStraight) ==
    [kind    |-> "radial",
     sourceX |-> source.x, sourceY |-> source.y,
     targetX |-> target.x, targetY |-> target.y,
     data    |-> [isSelfLoop   |-> isSelfLoop,
                  siblingCount |-> rank.count,
                  siblingIndex |-> rank.index,
                  isStraight   |-> isStraight]]

\* An edge from a node to itself has both ends at that node's centre; two
\* different nodes may lie anywhere, on top of each other included.
InitEdge ==
    /\ LayoutIdle
    /\ pc = "input"
    /\ fan = [count |-> 0, spacing |-> 0, offsets |-> <<>>]
    /\ path = [kind |-> "none"]
    /\ AppIdle
    /\ \E source \in Points : \E rank \in SiblingRanks : \E isStraight \in BOOLEAN :
          \/ /\ WholeDistance(source, [x |-> 0, y |-> 0])
             /\ props = EdgeProps(source, source, TRUE, rank, isStraight)
          \/ \E target \in Points :
                /\ WholeDistance(source, target)
                /\ props = EdgeProps(source, target, FALSE, rank, isStraight)

RadialEdge ==
    /\ pc = "input"
    /\ props.kind = "radial"
    /\ LET curvatureOffset ==
               getMultiEdgeCurvatureOffset(props.data.siblingIndex,
                                           props.data.siblingCount, DefaultSpacing)
       IN  path' = IF props.data.isSelfLoop
                   THEN SelfLoopPath(Whole(props.sourceX), Whole(props.sourceY),
                                     props.data.siblingIndex)
                   ELSE GeneralPath(Whole(props.sourceX), Whole(props.sourceY),
                                    Whole(props.targetX), Whole(props.targetY),
                                    props.data.isStraight, curvatureOffset)
    /\ pc' = "done"
    /\ UNCHANGED <<layoutVars, fan, props, appVars>>

NextEdge == RadialEdge

SpecEdge == InitEdge /\ [][NextEdge]_vars

(***************************************************************************)
(* The application (App): the canvas and the handlers of its interactive   *)
(* surface.                                                                *)
(*                                                                         *)
(* selectedNodeIds and selectedEdgeIds mirror the selection of the canvas  *)
(* library, which the user changes freely between two handler calls: a     *)
(* handler that reads them takes the selection as an input.  The fields    *)
(* isConnectMode, onHandleClick and selectedHandleId that the handlers     *)
(* store in node data are overwritten on every render (displayNodes) and   *)
(* are left out.  Date.now() is the clock `now`, which advances with every *)
(* user action.                                                            *)
(***************************************************************************)
\* currentFSMData before the first generation.
Null == [kind |-> "null"]

Undefined == "undefined"

\* { ...rec, ...upd }: the fields of upd added to rec or replacing its own.
Spread(rec, upd) ==
    [f \in DOMAIN rec \cup DOMAIN upd |->
        IF f \in DOMAIN upd THEN upd[f] ELSE rec[f]]

\* Graph descriptions the extraction may return.
NoStates == [states |-> <<>>, transitions |-> <<>>]

\* Two states joined by two parallel transitions.
TwoStates ==
    [states |-> StateList(2, <<RunLabel, RunLabel>>),
     transitions |-> << [source |-> IdPool[1], target |-> IdPool[2]],
                        [source |-> IdPool[1], target |-> IdPool[2]] >>]

\* An idle state (the hub) and two rim states joined by a transition.
ThreeStates ==
    [states |-> StateList(3, <<IdleLabel, RunLabel, RunLabel>>),
     transitions |-> << [source |-> IdPool[2], target |-> IdPool[3]] >>]

Graphs == {NoStates, TwoStates, ThreeStates}

\* An idle state (the hub) and three rim states, two of them joined.
FourStates ==
    [states |-> StateList(4, <<IdleLabel, RunLabel, RunLabel, RunLabel>>),
     transitions |-> << [source |-> IdPool[2], target |-> IdPool[3]] >>]

\* Malformed extraction results: a transition that names no state, and a
\* result without a state list.
DanglingGraph ==
    [states |-> StateList(2, <<RunLabel, RunLabel>>),
     transitions |-> << [source |-> IdPool[1], target |-> DanglingId] >>]

NoStateList == [transitions |-> <<>>]

Malformed == {DanglingGraph, NoStateList}

\* What parseVerilogWithGemini settles with: the parsed JSON, whatever it
\* holds (line 69), or a thrown error (lines 71-76).
Outcomes ==
    { [kind |-> "data", data |-> g] : g \in Graphs \cup Malformed }
        \cup { [kind |-> "error"] }

\* getRadialLayoutElements reads fsmData.states first (line 188) and throws
\* a TypeError when there is none.
LayoutThrows(data) == "states" \notin DOMAIN data

\* The texts of the code editor: empty, blank, and some Verilog.
Codes == { <<>>, <<" ">>, <<"m", " ">> }

\* code.trim()
RECURSIVE trimStart(_)
trimStart(code) ==
    IF code # <<>> /\ Head(code) = " " THEN trimStart(Tail(code)) ELSE code

RECURSIVE trimEnd(_)
trimEnd(code) ==
    IF code # <<>> /\ code[Len(code)] = " "
    THEN trimEnd(SubSeq(code, 1, Len(code) - 1)) ELSE code

trim(code) == trimEnd(trimStart(code))

ParsingFailed == [message |-> "Parsing Failed. Check your API Key or Network."]

\* The result of getRadialLayoutElements(data).
LayoutElements(data) ==
    Only({ [nodes |-> LayoutNodes(data.states, r.hub, r.sorted),
            edges |-> LayoutEdges(data.transitions, r.hub, r.sorted)]
           : r \in { [hub |-> h, sorted |-> SortRim(data, h)]
                     : h \in {SelectHub(data)} } })

\* The processing of lines 380-388 and 421-429 had it derived the curve flag
\* from the toolbar's style instead of resetting it.
ProcessedEdgesKeepingStyle(layoutEdges, width) ==
    [k \in DOMAIN layoutEdges |->
        LET e == layoutEdges[k]
        IN  IF e.type = "radial"
            THEN Spread(e, [style |-> Spread(e.style, [strokeWidth |-> width]),
                            data  |-> Spread(e.data, [isStraight |-> ~isCurved])])
            ELSE e]

\* Lines 380-388 and 421-429: the laid-out edges with the user's preferred
\* width, drawn curved.
ProcessedEdges(layoutEdges, width) ==
    [k \in DOMAIN layoutEdges |->
        LET e == layoutEdges[k]
        IN  IF e.type = "radial"
            THEN Spread(e, [style |-> Spread(e.style, [strokeWidth |-> width]),
                            data  |-> Spread(e.data, [isStraight |-> FALSE])])
            ELSE e]

InitApp ==
    /\ LayoutIdle
    /\ EdgeIdle
    /\ pc = "app"
    /\ AppIdle

\* A user action happens at a later time than the one before it.
Tick ==
    /\ pc = "app"
    /\ now < MaxTime
    /\ now' = now + 1
    /\ UNCHANGED <<layoutVars, pc, edgeVars>>

\* takeSnapshot had it left the redo stack alone.
takeSnapshotKeepingFuture ==
    /\ past' = Append(past, [nodes |-> nodes, edges |-> edges])
    /\ future' = future

\* takeSnapshot (lines 91-94).
takeSnapshot ==
    /\ past' = Append(past, [nodes |-> nodes, edges |-> edges])
    /\ future' = <<>>

\* The effect of lines 82-87 had it never dropped the pending source.
KeptWhenModeOff ==
    sourceSelection' = sourceSelection

\* The effect of lines 82-87: the pending source is dropped when connect
\* mode goes off.
ClearedWhenModeOff ==
    sourceSelection' = IF isConnectMode /\ ~isConnectMode'
                       THEN Null ELSE sourceSelection

\* updateGraph had it emptied the history before it laid the description
\* out.
updateGraphClearingFirst(data) ==
    /\ currentFSMData' = data
    /\ past' = <<>>
    /\ future' = <<>>
    /\ IF LayoutThrows(data)
       THEN UNCHANGED <<isCurved, nodes, edges, isConnectMode>>
       ELSE /\ isCurved' = TRUE
            /\ nodes' = LayoutElements(data).nodes
            /\ edges' = ProcessedEdges(LayoutElements(data).edges,
                                       request.defaultEdgeWidth)
            /\ isConnectMode' = FALSE
    /\ ClearedWhenModeOff
    /\ UNCHANGED defaultEdgeWidth

\* updateGraph as handleVisualize calls it when the extraction it awaited
\* has settled: the function is the one of the render in which Generate was
\* clicked, so the default width it reads is the one of that render.
updateGraph(data) ==
    /\ currentFSMData' = data
    /\ IF LayoutThrows(data)
       THEN UNCHANGED <<isCurved, past, future, nodes, edges, isConnectMode>>
       ELSE /\ isCurved' = TRUE
            /\ past' = <<>>
            /\ future' = <<>>
            /\ nodes' = LayoutElements(data).nodes
            /\ edges' = ProcessedEdges(LayoutElements(data).edges,
                                       request.defaultEdgeWidth)
            /\ isConnectMode' = FALSE
    /\ ClearedWhenModeOff
    /\ UNCHANGED defaultEdgeWidth

\* Lines 402-406: Generate is clicked.  The button is disabled while an
\* extraction is in flight (line 789).
handleVisualize(code) ==
    /\ Tick
    /\ ~isProcessing
    /\ IF trim(code) = <<>>
       THEN UNCHANGED <<isProcessing, error, request>>
       ELSE /\ isProcessing' = TRUE
            /\ error' = Null
            /\ request' = [defaultEdgeWidth |-> defaultEdgeWidth]
    /\ UNCHANGED <<nodes, edges, currentFSMData, defaultEdgeWidth, isCurved,
                   isConnectMode, past, future, sourceSelection>>

\* Lines 407-414: the awaited extraction settles.
handleVisualizeSettled(outcome) ==
    /\ pc = "app"
    /\ request # Null
    /\ IF outcome.kind = "data"
       THEN /\ updateGraph(outcome.data)
            /\ error' = IF LayoutThrows(outcome.data) THEN ParsingFailed ELSE error
       ELSE /\ error' = ParsingFailed
            /\ UNCHANGED <<nodes, edges, currentFSMData, defaultEdgeWidth,
                           isCurved, isConnectMode, past, future,
                           sourceSelection>>
    /\ isProcessing' = FALSE
    /\ request' = Null
    /\ UNCHANGED <<layoutVars, pc, edgeVars, now>>

\* Lines 417-444.  A stored description without a state list makes the
\* layout throw after the snapshot was queued.
handleAutoWire ==
    /\ Tick
    /\ currentFSMData # Null
    /\ takeSnapshot
    /\ IF LayoutThrows(currentFSMData)
       THEN UNCHANGED <<isCurved, nodes, edges, isConnectMode>>
       ELSE /\ isCurved' = TRUE
            /\ nodes' = LayoutElements(currentFSMData).nodes
            /\ edges' = ProcessedEdges(LayoutElements(currentFSMData).edges,
                                       defaultEdgeWidth)
            /\ isConnectMode' = FALSE
    /\ ClearedWhenModeOff
    /\ UNCHANGED <<currentFSMData, defaultEdgeWidth, request, isProcessing,
                   error>>

\* rec[f], undefined when the record has no such field.
Field(rec, f) == IF f \in DOMAIN rec THEN rec[f] ELSE Undefined

\* The selections the canvas may report: at most MaxSelected nodes and at
\* most MaxSelected edges of the canvas.
Selections(list) ==
    { S \in SUBSET IdsOf(list) : Cardinality(S) <= MaxSelected }

\* The node selections Group and Ungroup are pressed with.
GroupSelections ==
    { S \in SUBSET IdsOf(nodes) : Cardinality(S) <= MaxGrouped }

\* A mutant of handleSetEdgeStyle's edge update that marks the edge a
\* self-loop instead of setting isStraight.
RestyledAsSelfLoop(e, useCurve) ==
    IF e.type = "radial"
    THEN Spread(e, [data |-> Spread(e.data, [isSelfLoop |-> ~useCurve])])
    ELSE e

\* Lines 239-245: a selected edge after handleSetEdgeStyle(useCurve).
Restyled(e, useCurve) ==
    IF e.type = "radial"
    THEN Spread(e, [data |-> Spread(e.data, [isStraight |-> ~useCurve])])
    ELSE IF "isManual" \in DOMAIN e.data /\ e.data.isManual
            /\ e.type \notin {"radial", "draggable", "stub"}
         THEN Spread(e, [type |-> IF useCurve THEN "default" ELSE "straight"])
         ELSE e

handleSetEdgeStyle(useCurve, selectedEdgeIds) ==
    /\ Tick
    /\ isCurved' = useCurve
    /\ IF selectedEdgeIds # {}
       THEN /\ takeSnapshot
            /\ edges' = [k \in DOMAIN edges |->
                           IF edges[k].id \notin selectedEdgeIds THEN edges[k]
                           ELSE Restyled(edges[k], useCurve)]
       ELSE UNCHANGED <<edges, past, future>>
    /\ UNCHANGED <<nodes, currentFSMData, defaultEdgeWidth, isConnectMode, uiVars>>

\* { ...e, style: { ...e.style, strokeWidth: width } }
WithWidth(e, width) ==
    Spread(e, [style |-> Spread(e.style, [strokeWidth |-> width])])

handleSetEdgeWidth(width, selectedEdgeIds) ==
    /\ Tick
    /\ takeSnapshot
    /\ IF selectedEdgeIds # {}
       THEN /\ edges' = [k \in DOMAIN edges |->
                           IF edges[k].id \in selectedEdgeIds
                           THEN WithWidth(edges[k], width) ELSE edges[k]]
            /\ UNCHANGED defaultEdgeWidth
       ELSE /\ defaultEdgeWidth' = width
            /\ edges' = [k \in DOMAIN edges |-> WithWidth(edges[k], width)]
    /\ UNCHANGED <<nodes, currentFSMData, isCurved, isConnectMode, uiVars>>

handleDeleteSelected(selectedNodeIds, selectedEdgeIds) ==
    /\ Tick
    /\ ~(selectedEdgeIds = {} /\ selectedNodeIds = {})
    /\ takeSnapshot
    /\ edges' = SelectSeq(edges, LAMBDA e : e.id \notin selectedEdgeIds)
    /\ nodes' = SelectSeq(nodes, LAMBDA n : n.id \notin selectedNodeIds)
    /\ UNCHANGED <<currentFSMData, defaultEdgeWidth, isCurved, isConnectMode, uiVars>>

\* Lines 459-467: the edge `e` after handleEdgeUpdate(e.id, field, value).
EdgeUpdated(e, field, value) ==
    IF field = "label"
    THEN Spread(e, [label |-> value, data |-> Spread(e.data, [id |-> value])])
    ELSE IF field = "strokeWidth"
         THEN WithWidth(e, value)
         ELSE Spread(e, [data |-> Spread(e.data, [g \in {field} |-> value])])

handleEdgeUpdate(edgeId, field, value) ==
    /\ Tick
    /\ edges' = [k \in DOMAIN edges |->
                   IF edges[k].id = edgeId
                   THEN EdgeUpdated(edges[k], field, value) ELSE edges[k]]
    /\ UNCHANGED <<nodes, currentFSMData, defaultEdgeWidth, isCurved,
                   isConnectMode, uiVars, past, future>>

handleNodeUpdate(nodeId, field, value) ==
    /\ Tick
    /\ nodes' = [k \in DOMAIN nodes |->
                   IF nodes[k].id = nodeId
                   THEN Spread(nodes[k],
                               [data |-> Spread(nodes[k].data,
                                                [g \in {field} |-> value])])
                   ELSE nodes[k]]
    /\ UNCHANGED <<edges, currentFSMData, defaultEdgeWidth, isCurved,
                   isConnectMode, uiVars, past, future>>

\* The node with the given id (nodes.find), undefined when there is none.
FindNode(id) ==
    IF HasId(nodes, id) THEN nodes[FindIndex(nodes, id)] ELSE Undefined

\* The canvas library's addEdge: the edge is appended unless an edge with
\* the same ends and handles exists.
addEdge(newEdge, eds) ==
    IF \E k \in DOMAIN eds :
          /\ eds[k].source = newEdge.source
          /\ eds[k].target = newEdge.target
          /\ Field(eds[k], "sourceHandle") = newEdge.sourceHandle
          /\ Field(eds[k], "targetHandle") = newEdge.targetHandle
    THEN eds
    ELSE Append(eds, newEdge)

\* createManualEdge had it taken the clicked node for the source.
createManualEdgeReversed(sourceId, targetId, sourceHandle, targetHandle, time) ==
    edges' = addEdge(
        [id           |-> <<"manual_", time>>,
         source       |-> targetId,
         target       |-> sourceId,
         sourceHandle |-> sourceHandle,
         targetHandle |-> targetHandle,
         type         |-> IF isCurved THEN "default" ELSE "straight",
         label        |-> <<"?">>,
         style        |-> [strokeWidth |-> defaultEdgeWidth],
         data         |-> [id          |-> <<"?">>,
                           isManual    |-> TRUE,
                           sourceLabel |-> FindNode(sourceId).data.label,
                           targetLabel |-> FindNode(targetId).data.label,
                           condition   |-> "?",
                           action      |-> "-",
                           offset      |-> 0]],
        edges)

\* Lines 489-513; `time` is Date.now().
createManualEdge(sourceId, targetId, sourceHandle, targetHandle, time) ==
    edges' = addEdge(
        [id           |-> <<"manual_", time>>,
         source       |-> sourceId,
         target       |-> targetId,
         sourceHandle |-> sourceHandle,
         targetHandle |-> targetHandle,
         type         |-> IF isCurved THEN "default" ELSE "straight",
         label        |-> <<"?">>,
         style        |-> [strokeWidth |-> defaultEdgeWidth],
         data         |-> [id          |-> <<"?">>,
                           isManual    |-> TRUE,
                           sourceLabel |-> FindNode(sourceId).data.label,
                           targetLabel |-> FindNode(targetId).data.label,
                           condition   |-> "?",
                           action      |-> "-",
                           offset      |-> 0]],
        edges)

\* A connection dragged from a handle of one node to a handle of another.
onConnect(source, target, sourceHandle, targetHandle) ==
    /\ Tick
    /\ takeSnapshot
    /\ createManualEdge(source, target, sourceHandle, targetHandle, now')
    /\ UNCHANGED <<nodes, currentFSMData, defaultEdgeWidth, isCurved,
                   isConnectMode, uiVars>>

\* Lines 353-375: a rim handle of a node is clicked.  The node passes the
\* click on only in connect mode (CustomNodes.tsx, lines 29-34).
handleHandleClick(nodeId, handleId) ==
    /\ Tick
    /\ IF ~isConnectMode
       THEN UNCHANGED <<sourceSelection, edges, past, future>>
       ELSE IF sourceSelection = Null
            THEN /\ sourceSelection' = [nodeId |-> nodeId, handleId |-> handleId]
                 /\ UNCHANGED <<edges, past, future>>
            ELSE /\ IF HasId(nodes, sourceSelection.nodeId) /\ HasId(nodes, nodeId)
                    THEN /\ takeSnapshot
                         /\ createManualEdge(sourceSelection.nodeId, nodeId,
                                             sourceSelection.handleId,
                                             handleId \o "-t", now')
                    ELSE UNCHANGED <<edges, past, future>>
                 /\ sourceSelection' = Null
    /\ UNCHANGED <<nodes, currentFSMData, defaultEdgeWidth, isCurved,
                   isConnectMode, request, isProcessing, error>>

\* Lines 523-527: the canvas background is clicked.
handlePaneClick ==
    /\ Tick
    /\ sourceSelection' = Null
    /\ UNCHANGED <<nodes, edges, currentFSMData, defaultEdgeWidth, isCurved,
                   isConnectMode, past, future, request, isProcessing, error>>

\* The Connect and Move buttons (lines 583 and 596).
setIsConnectMode(value) ==
    /\ Tick
    /\ isConnectMode' = value
    /\ ClearedWhenModeOff
    /\ UNCHANGED <<nodes, edges, currentFSMData, defaultEdgeWidth, isCurved,
                   past, future, request, isProcessing, error>>

\* `group-${Date.now()}` for the times of the clock.
GroupIds == <<"group-1", "group-2", "group-3", "group-4", "group-5", "group-6">>

GroupId(time) == GroupIds[time]

\* The position of a group: the corner of the bounding box of its children,
\* PADDING away.  The positions of the layout are kept in polar form, so the
\* corner is kept as the box it belongs to.
PADDING == 40

GroupPosition(children) ==
    [boundingBoxOf |-> { children[k].position : k \in DOMAIN children },
     padding       |-> PADDING]

\* child - group: a position relative to the group.
RelativePosition(position, groupPosition) ==
    [absolute |-> position, relativeTo |-> groupPosition]

\* group + child: the absolute position of a child that leaves its group.
AbsolutePosition(groupPosition, position) ==
    IF "relativeTo" \in DOMAIN position /\ position.relativeTo = groupPosition
    THEN position.absolute
    ELSE [sum |-> <<groupPosition, position>>]

\* Lines 538-539: what enables the Group and the Ungroup button.
canGroup(selectedNodeIds) ==
    /\ Cardinality(selectedNodeIds) >= 2
    /\ ~\E k \in DOMAIN nodes :
          nodes[k].id \in selectedNodeIds /\ nodes[k].type = "group"

canUngroup(selectedNodeIds) ==
    \E k \in DOMAIN nodes :
       nodes[k].id \in selectedNodeIds /\ nodes[k].type = "group"

handleGroupNodes(selectedNodeIds) ==
    LET nodesToGroup ==
            SelectSeq(nodes, LAMBDA n : /\ n.id \in selectedNodeIds
                                        /\ n.type # "group"
                                        /\ Field(n, "parentNode") = Undefined)
        groupId   == GroupId(now')
        groupNode == [id       |-> groupId,
                      type     |-> "group",
                      position |-> GroupPosition(nodesToGroup),
                      data     |-> [label |-> <<"C", "l", "u", "s", "t", "e", "r">>]]
        updatedChildren ==
            [k \in DOMAIN nodesToGroup |->
                Spread(nodesToGroup[k],
                       [parentNode |-> groupId,
                        extent     |-> "parent",
                        position   |-> RelativePosition(nodesToGroup[k].position,
                                                        groupNode.position),
                        selected   |-> FALSE])]
        otherNodes == SelectSeq(nodes, LAMBDA n : n.id \notin selectedNodeIds)
    IN  /\ Tick
        /\ Len(nodesToGroup) >= 2
        /\ takeSnapshot
        /\ nodes' = otherNodes \o <<groupNode>> \o updatedChildren
        /\ UNCHANGED <<edges, currentFSMData, defaultEdgeWidth, isCurved,
                       isConnectMode, uiVars>>

\* Lines 207-225: the node list after the groups of `groups` are dissolved
\* one after the other.
RECURSIVE Ungrouped(_, _)
Ungrouped(newNodes, groups) ==
    IF groups = <<>> THEN newNodes
    ELSE LET group    == groups[1]
             children == SelectSeq(newNodes,
                                   LAMBDA n : Field(n, "parentNode") = group.id)
             restoredChildren ==
                 [k \in DOMAIN children |->
                     Spread(children[k],
                            [parentNode |-> Undefined,
                             extent     |-> Undefined,
                             position   |-> AbsolutePosition(group.position,
                                                             children[k].position)])]
             rest == SelectSeq(newNodes,
                               LAMBDA n : /\ n.id # group.id
                                          /\ Field(n, "parentNode") # group.id)
         IN  Ungrouped(rest \o restoredChildren, Tail(groups))

\* handleUngroupNodes had it removed the selected groups and left their
\* children as they were.
handleUngroupNodesGroupOnly(selectedNodeIds) ==
    /\ Tick
    /\ canUngroup(selectedNodeIds)
    /\ takeSnapshot
    /\ nodes' = SelectSeq(nodes, LAMBDA n : ~(n.id \in selectedNodeIds
                                              /\ n.type = "group"))
    /\ UNCHANGED <<edges, currentFSMData, defaultEdgeWidth, isCurved,
                   isConnectMode, uiVars>>

handleUngroupNodes(selectedNodeIds) ==
    LET selectedGroups ==
            SelectSeq(nodes, LAMBDA n : n.id \in selectedNodeIds /\ n.type = "group")
    IN  /\ Tick
        /\ selectedGroups # <<>>
        /\ takeSnapshot
        /\ nodes' = Ungrouped(nodes, selectedGroups)
        /\ UNCHANGED <<edges, currentFSMData, defaultEdgeWidth, isCurved,
                       isConnectMode, uiVars>>

\* A node dragged on the canvas (onNodesChange); the canvas locks the nodes
\* in connect mode.
onNodesChange(nodeId, position) ==
    /\ Tick
    /\ ~isConnectMode
    /\ nodes' = [k \in DOMAIN nodes |->
                   IF nodes[k].id = nodeId
                   THEN Spread(nodes[k], [position |-> position]) ELSE nodes[k]]
    /\ UNCHANGED <<edges, currentFSMData, defaultEdgeWidth, isCurved,
                   isConnectMode, uiVars, past, future>>

\* The canvas with its two history stacks.
History == [nodes |-> nodes, edges |-> edges, past |-> past, future |-> future]

\* undo had it put the current collections at the back of the redo stack.
UndoneToBack(h) ==
    IF Len(h.past) = 0 THEN h
    ELSE [nodes  |-> h.past[Len(h.past)].nodes,
          edges  |-> h.past[Len(h.past)].edges,
          past   |-> SubSeq(h.past, 1, Len(h.past) - 1),
          future |-> Append(h.future, [nodes |-> h.nodes, edges |-> h.edges])]

\* Lines 96-107: what undo makes of the canvas and the stacks.
Undone(h) ==
    IF Len(h.past) = 0 THEN h
    ELSE [nodes  |-> h.past[Len(h.past)].nodes,
          edges  |-> h.past[Len(h.past)].edges,
          past   |-> SubSeq(h.past, 1, Len(h.past) - 1),
          future |-> <<[nodes |-> h.nodes, edges |-> h.edges]>> \o h.future]

\* Lines 109-120: what redo makes of the canvas and the stacks.
Redone(h) ==
    IF Len(h.future) = 0 THEN h
    ELSE [nodes  |-> h.future[1].nodes,
          edges  |-> h.future[1].edges,
          past   |-> Append(h.past, [nodes |-> h.nodes, edges |-> h.edges]),
          future |-> Tail(h.future)]

\* The canvas and the stacks become those of h.
Becomes(h) ==
    /\ nodes' = h.nodes
    /\ edges' = h.edges
    /\ past' = h.past
    /\ future' = h.future

undo ==
    /\ Tick
    /\ Becomes(Undone(History))
    /\ UNCHANGED <<currentFSMData, defaultEdgeWidth, isCurved, isConnectMode,
                   uiVars>>

redo ==
    /\ Tick
    /\ Becomes(Redone(History))
    /\ UNCHANGED <<currentFSMData, defaultEdgeWidth, isCurved, isConnectMode,
                   uiVars>>

(***************************************************************************)
(* The inputs of the handlers.                                             *)
(***************************************************************************)
\* Widths the width menu offers.
Widths == {4}

\* What the inspector and the transition table write into an edge.
EdgeEdits ==
    { [field |-> "label", value |-> <<"7">>],
      [field |-> "strokeWidth", value |-> 3],
      [field |-> "condition", value |-> "edited"],
      [field |-> "action", value |-> "edited"] }

\* What the inspector writes into a node.
NodeEdits ==
    { [field |-> "label", value |-> <<"N", "E", "W">>],
      [field |-> "description", value |-> "edited"],
      [field |-> "isInitial", value |-> TRUE] }

\* Where a node is dropped.
DropPositions == { [x |-> 100, y |-> 100] }

\* The states drawn as circles, which carry the connection handles.
CircleIds == { nodes[k].id : k \in { j \in DOMAIN nodes : nodes[j].type = "circular" } }

\* The rim handles a click can land on.
HandleIds == {"right", "left"}

\* The Group and the Ungroup button, pressed when they are enabled.
Group ==
    \E sel \in GroupSelections : canGroup(sel) /\ handleGroupNodes(sel)

Ungroup ==
    \E sel \in GroupSelections : canUngroup(sel) /\ handleUngroupNodes(sel)

Grouping == Group \/ Ungroup

\* Click-to-connect and the mode buttons.
Connecting ==
    \/ \E nodeId \in CircleIds : \E handleId \in HandleIds :
          handleHandleClick(nodeId, handleId)
    \/ handlePaneClick
    \/ \E value \in BOOLEAN : setIsConnectMode(value)

Editing ==
    \/ \E useCurve \in BOOLEAN : \E sel \in Selections(edges) :
          handleSetEdgeStyle(useCurve, sel)
    \/ \E width \in Widths : \E sel \in Selections(edges) :
          handleSetEdgeWidth(width, sel)
    \/ \E selN \in Selections(nodes) : \E selE \in Selections(edges) :
          handleDeleteSelected(selN, selE)
    \/ \E k \in DOMAIN edges : \E edit \in EdgeEdits :
          handleEdgeUpdate(edges[k].id, edit.field, edit.value)
    \/ \E k \in DOMAIN nodes : \E edit \in NodeEdits :
          handleNodeUpdate(nodes[k].id, edit.field, edit.value)
    \/ \E source \in CircleIds : \E target \in CircleIds :
          onConnect(source, target, "right", "left-t")
    \/ Grouping
    \/ \E k \in DOMAIN nodes : \E position \in DropPositions :
          onNodesChange(nodes[k].id, position)

NextApp ==
    \/ \E code \in Codes : handleVisualize(code)
    \/ \E outcome \in Outcomes : handleVisualizeSettled(outcome)
    \/ handleAutoWire
    \/ Editing
    \/ Connecting
    \/ undo
    \/ redo

SpecApp == InitApp /\ [][NextApp]_vars

\* The application with a generated graph on the canvas: a first successful
\* generation of `data`, after which the user has pressed Connect or not.
Loaded(data, mode) ==
    /\ nodes = LayoutElements(data).nodes
    /\ edges = ProcessedEdges(LayoutElements(data).edges, 2)
    /\ currentFSMData = data
    /\ defaultEdgeWidth = 2
    /\ isCurved = TRUE
    /\ isConnectMode = mode
    /\ past = <<>>
    /\ future = <<>>
    /\ now = 0
    /\ sourceSelection = Null
    /\ request = Null
    /\ isProcessing = FALSE
    /\ error = Null

\* The three-state graph is on the canvas and Connect has been pressed.
InitCanvas ==
    /\ LayoutIdle
    /\ EdgeIdle
    /\ pc = "app"
    /\ Loaded(ThreeStates, TRUE)

SpecCanvas == InitCanvas /\ [][NextApp]_vars

\* The four-state graph is on the canvas in move mode, and the user groups,
\* ungroups, deletes, undoes, redoes, auto-wires and generates.
InitGroup ==
    /\ LayoutIdle
    /\ EdgeIdle
    /\ pc = "app"
    /\ Loaded(FourStates, FALSE)

NextGroup ==
    \/ Group
    \/ Ungroup
    \/ \E selN \in Selections(nodes) : handleDeleteSelected(selN, {})
    \/ undo
    \/ redo
    \/ handleAutoWire
    \/ \E code \in Codes : handleVisualize(code)
    \/ \E outcome \in Outcomes : handleVisualizeSettled(outcome)

SpecGroup == InitGroup /\ [][NextGroup]_vars


(***************************************************************************)
(* Properties.                                                             *)
(***************************************************************************)
Done == pc = "done"

\* The non-hub states of the input, by position in the state list.
NonHubIndices == { k \in DOMAIN fsmData.states : fsmData.states[k].id # hubId }

\* Every endpoint of every transition is the id of a state.
WellFormed ==
    \A k \in DOMAIN fsmData.transitions :
        /\ fsmData.transitions[k].source \in IdsOf(fsmData.states)
        /\ fsmData.transitions[k].target \in IdsOf(fsmData.states)

\* Two characters are the same letter, whatever their case.
SameLetter(c, d) ==
    \/ c = d
    \/ \E k \in DOMAIN LowerChars : {c, d} = {LowerChars[k], UpperChars[k]}

\* Two strings are equal when compared case-insensitively.
EqualsIgnoreCase(a, b) ==
    /\ Len(a) = Len(b)
    /\ \A k \in DOMAIN a : SameLetter(a[k], b[k])

\* The degree of the claims: transitions in which the id is source or target,
\* a self-loop counted once.
DegreeOf(id) ==
    Cardinality({ k \in DOMAIN fsmData.transitions : fsmData.transitions[k].source = id })
    + Cardinality({ k \in DOMAIN fsmData.transitions : fsmData.transitions[k].target = id })
    - Cardinality({ k \in DOMAIN fsmData.transitions :
                      /\ fsmData.transitions[k].source = id
                      /\ fsmData.transitions[k].target = id })

\* C1: Ring completeness - after the layout, every state whose id differs
\* from the hub id appears exactly once in sortedRimNodes, and sortedRimNodes
\* holds nothing else.
RingCompleteness ==
    Done =>
        /\ \A k \in NonHubIndices :
              Cardinality({ j \in DOMAIN sortedRimNodes :
                              sortedRimNodes[j].id = fsmData.states[k].id }) = 1
        /\ \A j \in DOMAIN sortedRimNodes :
              \E k \in NonHubIndices : sortedRimNodes[j] = fsmData.states[k]

\* C2: Hub uniqueness - for a non-empty state list the hub id is the id of
\* an input state, exactly one output node lies at the origin, and that node
\* is the hub.
HubUniqueness ==
    (Done /\ fsmData.states # <<>>) =>
        /\ hubId \in IdsOf(fsmData.states)
        /\ Cardinality({ k \in DOMAIN layoutedNodes :
                           layoutedNodes[k].position.radius = 0 }) = 1
        /\ \A k \in DOMAIN layoutedNodes :
              layoutedNodes[k].position.radius = 0 <=> layoutedNodes[k].id = hubId

\* C2 witness: a layout of three states whose hub is the second state.
HubUniquenessWitness ==
    /\ Done
    /\ Len(fsmData.states) = 3
    /\ hubId = fsmData.states[2].id
    /\ Len(layoutedNodes) = 3
    /\ layoutedNodes[1].id = hubId

\* The four words the claim C3 lists.
FourWords ==
    { <<"I", "D", "L", "E">>,
      <<"R", "E", "S", "E", "T">>,
      <<"W", "A", "I", "T">>,
      <<"M", "A", "I", "N">> }

\* The states whose label is, case-insensitively, a word of `words`.
Matching(words) ==
    { k \in DOMAIN fsmData.states :
        \E w \in words : EqualsIgnoreCase(fsmData.states[k].label, w) }

\* C3 as stated: whenever a label equals, case-insensitively, one of IDLE,
\* RESET, WAIT, MAIN, the hub is the first state with such a label.
HubByLabelFourWords ==
    (Done /\ Matching(FourWords) # {}) =>
        hubId = fsmData.states[Min(Matching(FourWords))].id

\* C3 amended: whenever a label equals, case-insensitively, one of IDLE,
\* RESET, WAIT, MAIN, ST_IDLE, the hub is the first state with such a label,
\* whatever the degrees.
HubByLabel ==
    (Done /\ Matching(Vocabulary) # {}) =>
        hubId = fsmData.states[Min(Matching(Vocabulary))].id

\* C3 witness: the hub is a mixed-case idle state of degree 0 that comes
\* after a state of higher degree.
HubByLabelWitness ==
    /\ Done
    /\ Len(fsmData.states) >= 2
    /\ Matching(Vocabulary) = {2}
    /\ fsmData.states[2].label \notin Vocabulary
    /\ DegreeOf(fsmData.states[2].id) = 0
    /\ DegreeOf(fsmData.states[1].id) > 0
    /\ hubId = fsmData.states[2].id

\* C4: Hub by degree - when no label matches the vocabulary, the hub is a
\* state of maximum degree, and no earlier state has that degree.
HubByDegree ==
    (Done /\ fsmData.states # <<>> /\ Matching(Vocabulary) = {}) =>
        \E h \in DOMAIN fsmData.states :
            /\ hubId = fsmData.states[h].id
            /\ \A k \in DOMAIN fsmData.states :
                  DegreeOf(fsmData.states[k].id) <= DegreeOf(hubId)
            /\ \A k \in 1..(h - 1) :
                  DegreeOf(fsmData.states[k].id) < DegreeOf(hubId)

\* C4 witness: the hub is the second state, it carries a self-loop, and a
\* later state has the same degree.
HubByDegreeWitness ==
    /\ Done
    /\ Matching(Vocabulary) = {}
    /\ Len(fsmData.states) >= 3
    /\ hubId = fsmData.states[2].id
    /\ DegreeOf(fsmData.states[3].id) = DegreeOf(hubId)
    /\ \E k \in DOMAIN fsmData.transitions :
          fsmData.transitions[k] = [source |-> hubId, target |-> hubId]

\* C5: Degenerate input - for an empty state list the layout has no hub, no
\* nodes and no edges, whatever the transition list contains.
EmptyStatesEmptyResult ==
    (Done /\ fsmData.states = <<>>) =>
        /\ hubId = NoHub
        /\ layoutedNodes = <<>>
        /\ layoutedEdges = <<>>

\* What the layout of an empty state list does satisfy: no hub, no nodes.
EmptyStatesNoNodes ==
    (Done /\ fsmData.states = <<>>) => (hubId = NoHub /\ layoutedNodes = <<>>)

\* The transitions from the hub to a non-hub state, by position.
HubToRim ==
    { k \in DOMAIN fsmData.transitions :
        /\ fsmData.transitions[k].source = hubId
        /\ \E n \in NonHubIndices :
              fsmData.states[n].id = fsmData.transitions[k].target }

\* C6: Rim seed - the rim ordering starts with the target of the first
\* transition from the hub to a non-hub state; without such a transition it
\* starts with the first non-hub state of the input.
RimSeed ==
    (Done /\ NonHubIndices # {}) =>
        /\ sortedRimNodes # <<>>
        /\ sortedRimNodes[1].id =
              IF HubToRim # {}
              THEN fsmData.transitions[Min(HubToRim)].target
              ELSE fsmData.states[Min(NonHubIndices)].id

\* C6 witness: the hub's first transition dangles, its second one leads to
\* the third state, and the rim ordering starts with the third state.
RimSeedWitness ==
    /\ Done
    /\ Len(fsmData.states) >= 3
    /\ hubId = fsmData.states[1].id
    /\ Len(fsmData.transitions) = 2
    /\ fsmData.transitions[1] = [source |-> hubId, target |-> DanglingId]
    /\ fsmData.transitions[2] = [source |-> hubId, target |-> fsmData.states[3].id]
    /\ sortedRimNodes[1].id = fsmData.states[3].id

\* The ids of the first j states of the rim ordering.
Placed(j) == { sortedRimNodes[i].id : i \in 1..j }

\* The transitions from the j-th state of the rim ordering to a non-hub state
\* that is not among the first j, by position.
ChainCandidates(j) ==
    { k \in DOMAIN fsmData.transitions :
        /\ fsmData.transitions[k].source = sortedRimNodes[j].id
        /\ fsmData.transitions[k].target \notin Placed(j)
        /\ \E n \in NonHubIndices :
              fsmData.states[n].id = fsmData.transitions[k].target }

\* C7: Greedy chain step - each state of the rim ordering is followed by the
\* target of its first transition to a non-hub state not yet placed, or,
\* when it has none, by the first non-hub state of the input not yet placed.
GreedyChainStep ==
    Done =>
        \A j \in 1..(Len(sortedRimNodes) - 1) :
            sortedRimNodes[j + 1].id =
                IF ChainCandidates(j) # {}
                THEN fsmData.transitions[Min(ChainCandidates(j))].target
                ELSE fsmData.states[
                        Min({ n \in NonHubIndices :
                                fsmData.states[n].id \notin Placed(j) })].id

\* Ring completeness and the greedy chain step on inputs whose transitions
\* all name states: both fail only through a dangling reference.
WellFormedRim ==
    WellFormed => (RingCompleteness /\ GreedyChainStep)

\* The angle of position q minus the angle of position p is t/n of a turn.
TurnsApart(p, q, t, n) ==
    (q.num * p.den - p.num * q.den) * n = t * p.den * q.den

\* Position p is slot i (from 0) of n: radius 380, angle i/n - 1/4 of a turn.
AtSlot(p, i, n) ==
    /\ p.radius = 380
    /\ p.den > 0
    /\ p.num * 4 * n = (4 * i - n) * p.den

\* The positions of the nodes of the rim states, in ring order.
RimPositions ==
    [j \in DOMAIN sortedRimNodes |->
        layoutedNodes[CHOOSE k \in DOMAIN layoutedNodes :
                        layoutedNodes[k].id = sortedRimNodes[j].id].position]

\* C8: Radial placement - the hub lies at the origin; the state at ring index
\* i (from 0) of the n states of the rim ordering lies at radius 380 and angle
\* i/n - 1/4 of a turn, so every slot holds exactly one state and consecutive
\* states are 1/n of a turn apart, the last and the first included.
RadialPlacement ==
    Done =>
        LET n   == Len(sortedRimNodes)
            pos == RimPositions
        IN  /\ \A k \in DOMAIN layoutedNodes :
                  layoutedNodes[k].id = hubId =>
                      (layoutedNodes[k].position.radius = 0
                       /\ layoutedNodes[k].position.num = 0)
            /\ hubId \in IdsOf(fsmData.states) => hubId \in IdsOf(layoutedNodes)
            /\ \A j \in 1..n : AtSlot(pos[j], j - 1, n)
            /\ \A i \in 0..(n - 1) :
                  Cardinality({ j \in 1..n : AtSlot(pos[j], i, n) }) = 1
            /\ \A j \in 1..(n - 1) : TurnsApart(pos[j], pos[j + 1], 1, n)
            /\ n > 0 => TurnsApart(pos[n], pos[1], 1 - n, n)

\* C8 witness: a hub and three rim states placed.
RadialPlacementWitness ==
    /\ Done
    /\ Len(sortedRimNodes) = 3
    /\ Len(layoutedNodes) = 4
    /\ layoutedNodes[1].id = hubId

\* The number a decimal digit string denotes.
RECURSIVE NumericValue(_)
NumericValue(str) ==
    IF str = <<>> THEN 0
    ELSE 10 * NumericValue(SubSeq(str, 1, Len(str) - 1))
         + (CHOOSE d \in 0..9 : Digits[d + 1] = str[Len(str)])

\* C9: One edge per transition - as many edges as transitions, in the same
\* order; the k-th edge has the k-th transition's source and target, the
\* numeric label k and an id no other edge has.
OneEdgePerTransition ==
    Done =>
        /\ Len(layoutedEdges) = Len(fsmData.transitions)
        /\ \A k \in DOMAIN layoutedEdges :
              /\ layoutedEdges[k].source = fsmData.transitions[k].source
              /\ layoutedEdges[k].target = fsmData.transitions[k].target
              /\ NumericValue(layoutedEdges[k].label) = k
              /\ \A j \in DOMAIN layoutedEdges :
                    j # k => layoutedEdges[j].id # layoutedEdges[k].id

\* C9 witness: two parallel transitions, two edges.
OneEdgePerTransitionWitness ==
    /\ Done
    /\ Len(fsmData.transitions) = 2
    /\ fsmData.transitions[1] = fsmData.transitions[2]
    /\ Len(layoutedEdges) = 2

\* C10: Classification - isSelfLoop exactly when source equals target,
\* isHubConnection exactly when source or target is the hub id, and an edge
\* with either flag is never a neighbor edge.
Classification ==
    Done =>
        \A k \in DOMAIN layoutedEdges :
            LET e == layoutedEdges[k]
            IN  /\ e.data.isSelfLoop <=> (e.source = e.target)
                /\ e.data.isHubConnection <=> (e.source = hubId \/ e.target = hubId)
                /\ (e.data.isSelfLoop \/ e.data.isHubConnection) => ~e.data.isNeighbor

\* C10 witness: a self-loop on the hub with both flags, next to a self-loop
\* on the only rim state.
ClassificationWitness ==
    /\ Done
    /\ Len(sortedRimNodes) = 1
    /\ \E k \in DOMAIN layoutedEdges :
          /\ layoutedEdges[k].source = hubId
          /\ layoutedEdges[k].target = hubId
          /\ layoutedEdges[k].data.isSelfLoop
          /\ layoutedEdges[k].data.isHubConnection
    /\ \E k \in DOMAIN layoutedEdges :
          /\ layoutedEdges[k].source = sortedRimNodes[1].id
          /\ layoutedEdges[k].target = sortedRimNodes[1].id
          /\ layoutedEdges[k].data.isSelfLoop
          /\ ~layoutedEdges[k].data.isHubConnection

\* The slots (1-based) of the rim ordering that hold the state `id`.
SlotsOf(id) == { i \in DOMAIN sortedRimNodes : sortedRimNodes[i].id = id }

\* Two slots of a ring of n next to each other, the last and the first
\* included: the indices differ by 1 modulo n.
AdjacentSlots(i, j, n) == (i - j) % n = 1 \/ (j - i) % n = 1

\* A transition between two distinct rim states.
RimToRim(e) ==
    /\ e.source # e.target
    /\ e.source # hubId /\ e.target # hubId
    /\ e.source \in IdsOf(fsmData.states)
    /\ e.target \in IdsOf(fsmData.states)

\* C11: Neighbor classification - for a transition between two distinct rim
\* states isNeighbor is true exactly when the two states are adjacent in the
\* rim ordering, wrap-around included; for every other transition it is
\* false.
NeighborClassification ==
    Done =>
        \A k \in DOMAIN layoutedEdges :
            LET e == layoutedEdges[k]
                adjacent ==
                    \E i \in SlotsOf(e.source) : \E j \in SlotsOf(e.target) :
                        AdjacentSlots(i, j, Len(sortedRimNodes))
            IN  IF RimToRim(e) THEN e.data.isNeighbor <=> adjacent
                ELSE ~e.data.isNeighbor

\* C11 witness: a ring of at least four states with a transition between
\* two states that are not adjacent, classified as not a neighbor edge.
NeighborClassificationWitness ==
    /\ Done
    /\ Len(sortedRimNodes) >= 4
    /\ \E k \in DOMAIN layoutedEdges :
          /\ RimToRim(layoutedEdges[k])
          /\ SlotsOf(layoutedEdges[k].source) # {}
          /\ SlotsOf(layoutedEdges[k].target) # {}
          /\ ~layoutedEdges[k].data.isNeighbor

\* The transitions with the same ordered (source, target) pair as the k-th.
SamePair(k) ==
    { j \in DOMAIN fsmData.transitions :
        /\ fsmData.transitions[j].source = fsmData.transitions[k].source
        /\ fsmData.transitions[j].target = fsmData.transitions[k].target }

\* C12: Sibling ranking - siblingCount of an edge is the number of
\* transitions with its ordered (source, target) pair and siblingIndex the
\* number of those that come earlier in the input, so k parallel transitions
\* carry the count k and the indices 0..k-1 in input order; a transition in
\* the opposite direction is not counted.
SiblingRanking ==
    Done =>
        \A k \in DOMAIN layoutedEdges :
            /\ layoutedEdges[k].data.siblingCount = Cardinality(SamePair(k))
            /\ layoutedEdges[k].data.siblingIndex =
                  Cardinality({ j \in SamePair(k) : j < k })

\* C12 witness: two parallel transitions between distinct states, ranked
\* 0 and 1 of 2.
SiblingRankingWitness ==
    /\ Done
    /\ Len(layoutedEdges) = 2
    /\ layoutedEdges[1].source # layoutedEdges[1].target
    /\ SamePair(1) = {1, 2}
    /\ layoutedEdges[1].data.siblingCount = 2
    /\ layoutedEdges[2].data.siblingCount = 2
    /\ layoutedEdges[1].data.siblingIndex = 0
    /\ layoutedEdges[2].data.siblingIndex = 1

RECURSIVE SumOf(_)
SumOf(numbers) ==
    IF numbers = <<>> THEN Whole(0)
    ELSE Plus(numbers[1], SumOf(Tail(numbers)))

\* C13: Parallel-edge symmetry - the offsets of a fan of k >= 1 parallel
\* edges sum to zero, are pairwise distinct and mirror each other about
\* zero; a single edge has offset 0 and three edges have -spacing, 0,
\* +spacing.
ParallelEdgeSymmetry ==
    (Done /\ fan.count >= 1) =>
        LET k == fan.count
            offset(i) == fan.offsets[i + 1]
        IN  /\ Len(fan.offsets) = k
            /\ SumOf(fan.offsets) = Whole(0)
            /\ \A i, j \in 0..(k - 1) : i # j => offset(i) # offset(j)
            /\ \A i \in 0..(k - 1) : offset(i) = Neg(offset(k - 1 - i))
            /\ k = 1 => offset(0) = Whole(0)
            /\ k = 3 => fan.offsets = <<Whole(-fan.spacing), Whole(0),
                                        Whole(fan.spacing)>>

\* C13 witness: three parallel edges at the default spacing.
ParallelEdgeSymmetryWitness ==
    /\ Done
    /\ fan.count = 3
    /\ fan.spacing = DefaultSpacing
    /\ fan.offsets = <<Whole(-DefaultSpacing), Whole(0), Whole(DefaultSpacing)>>

\* The edge has been drawn.
Rendered == pc = "done" /\ path.kind # "none"

\* |p - q| = r for points whose coordinates may depend on the angle A:
\* the squared distance, a polynomial in cos(A) and sin(A), is reduced by
\* sin^2 = 1 - cos^2 and equals r^2 only when its constant term does and
\* every other coefficient vanishes.
DistanceIs(p, q, r) ==
    LET vx == Minus(p.x, q.x)
        vy == Minus(p.y, q.y)
        ax == [k |-> vx.k * vy.den, c |-> vx.c * vy.den, s |-> vx.s * vy.den]
        ay == [k |-> vy.k * vx.den, c |-> vy.c * vx.den, s |-> vy.s * vx.den]
        den == vx.den * vy.den
    IN  /\ IsFinite(vx) /\ IsFinite(vy)
        /\ ax.k * ax.k + ay.k * ay.k + ax.s * ax.s + ay.s * ay.s = r * r * den * den
        /\ ax.c * ax.c + ay.c * ay.c = ax.s * ax.s + ay.s * ay.s
        /\ ax.c * ax.s + ay.c * ay.s = 0
        /\ ax.k * ax.c + ay.k * ay.c = 0
        /\ ax.k * ax.s + ay.k * ay.s = 0

SourceCentre == [x |-> Whole(props.sourceX), y |-> Whole(props.sourceY)]

\* C14: Self-loop anchors - the path of every self-loop, wherever its node
\* lies, starts and ends at distance NODE_RADIUS from the node's centre.
SelfLoopAnchors ==
    (Rendered /\ props.data.isSelfLoop) =>
        /\ DistanceIs(path.start, SourceCentre, NODE_RADIUS)
        /\ DistanceIs(path.end, SourceCentre, NODE_RADIUS)

\* The same away from the origin of the canvas.
SelfLoopAnchorsOffOrigin ==
    (Rendered /\ props.data.isSelfLoop
       /\ ~(props.sourceX = 0 /\ props.sourceY = 0)) =>
        /\ DistanceIs(path.start, SourceCentre, NODE_RADIUS)
        /\ DistanceIs(path.end, SourceCentre, NODE_RADIUS)

\* C15: No division by zero - an arched connection between two nodes whose
\* anchor points coincide is drawn without dividing by zero: its control
\* point is a pair of finite numbers.
NoDivisionByZero ==
    (Rendered /\ path.kind = "Q" /\ path.start = path.end) =>
        /\ IsFinite(path.control.x)
        /\ IsFinite(path.control.y)

\* Arched connections with distinct anchor points have a finite control
\* point.
FiniteControlPoint ==
    (Rendered /\ path.kind = "Q" /\ path.start # path.end) =>
        /\ IsFinite(path.control.x)
        /\ IsFinite(path.control.y)

TagNames ==
    {"isHubConnection", "isNeighbor", "isSelfLoop", "siblingCount", "siblingIndex"}

TagsOf(e) == [f \in TagNames \cap DOMAIN e.data |-> e.data[f]]

\* A successful generation: the extraction settles with a result the layout
\* accepts.
Generation ==
    \E outcome \in Outcomes :
        /\ outcome.kind = "data"
        /\ ~LayoutThrows(outcome.data)
        /\ handleVisualizeSettled(outcome)

\* An auto-wire of a stored description the layout accepts.
AutoWire == ~LayoutThrows(currentFSMData) /\ handleAutoWire

\* A step that computes a layout: a generation or an auto-wire.
LayoutStep == AutoWire \/ Generation

\* C18: Classification tags are frozen at layout time - a step of the
\* interactive surface that is not a layout computation (drag, inspector or
\* table edit, style or width change, manual edge, grouping, ungrouping,
\* deletion, undo, redo) leaves isHubConnection, isNeighbor, isSelfLoop,
\* siblingCount and siblingIndex of every edge that remains as they were.
TagsFrozen ==
    [][ ~LayoutStep =>
          \A i \in DOMAIN edges : \A j \in DOMAIN edges' :
              edges[i].id = edges'[j].id => TagsOf(edges[i]) = TagsOf(edges'[j])
      ]_vars

\* C18 witness: a neighbor edge of the layout that was made straight and
\* whose condition was edited still carries its tags.
TagsFrozenWitness ==
    \E k \in DOMAIN edges :
        /\ edges[k].type = "radial"
        /\ edges[k].data.isStraight
        /\ "condition" \in DOMAIN edges[k].data
        /\ edges[k].data.condition = "edited"
        /\ edges[k].data.isNeighbor
        /\ ~edges[k].data.isSelfLoop

\* The edges of a fresh radial layout of the stored graph description, drawn
\* curved as the surface draws a new layout.
FreshEdges(data) ==
    LET fresh == LayoutElements(data).edges
    IN  [k \in DOMAIN fresh |->
            [fresh[k] EXCEPT !.data = Spread(@, [isStraight |-> FALSE])]]

FreshNodes(data) == LayoutElements(data).nodes

\* The same edges in the stroke width the user chose as the default.
FreshEdgesOfWidth(data, width) ==
    LET fresh == FreshEdges(data)
    IN  [k \in DOMAIN fresh |-> [fresh[k] EXCEPT !.style.strokeWidth = width]]

StateFacts(n) ==
    [f \in {"label", "description", "isInitial"} \cap DOMAIN n.data |-> n.data[f]]

\* What the graph description says of a transition, as the canvas holds it.
TransitionFacts(e) ==
    [f \in {"condition", "action"} \cap DOMAIN e.data |-> e.data[f]]

StateNodes(list) == { k \in DOMAIN list : list[k].type = "circular" }

\* C20: an auto-wire lays out the graph description as it currently stands -
\* the re-laid-out nodes are the states on the canvas before the action (a
\* deleted state stays deleted) with the label, description and initial flag
\* they had, and every edge that remains has the condition and action it had.
RelayoutUsesCurrentDescription ==
    [][ handleAutoWire =>
          /\ \A i \in StateNodes(nodes') : \E j \in StateNodes(nodes) :
                /\ nodes[j].id = nodes'[i].id
                /\ StateFacts(nodes[j]) = StateFacts(nodes'[i])
          /\ \A j \in StateNodes(nodes) : \E i \in StateNodes(nodes') :
                nodes'[i].id = nodes[j].id
          /\ \A i \in DOMAIN edges' : \A j \in DOMAIN edges :
                edges[j].id = edges'[i].id
                    => TransitionFacts(edges[j]) = TransitionFacts(edges'[i])
      ]_vars

\* The second click of a click-to-connect, both nodes still on the canvas.
ClickConnect ==
    /\ isConnectMode
    /\ sourceSelection # Null
    /\ \E nodeId \in CircleIds : \E handleId \in HandleIds :
          /\ HasId(nodes, sourceSelection.nodeId)
          /\ handleHandleClick(nodeId, handleId)

\* The actions that record an undo snapshot.
SnapshotAction ==
    \/ Grouping
    \/ \E useCurve \in BOOLEAN : \E sel \in Selections(edges) \ {{}} :
          handleSetEdgeStyle(useCurve, sel)
    \/ \E width \in Widths : \E sel \in Selections(edges) :
          handleSetEdgeWidth(width, sel)
    \/ ClickConnect
    \/ \E source \in CircleIds : \E target \in CircleIds :
          onConnect(source, target, "right", "left-t")
    \/ handleAutoWire
    \/ \E selN \in Selections(nodes) : \E selE \in Selections(edges) :
          handleDeleteSelected(selN, selE)

\* C21: Future cleared on new action - every action that records an undo
\* snapshot pushes the collections on the undo stack and leaves the redo
\* stack empty (so redo, which acts only on a non-empty redo stack, changes
\* nothing right after it); a successful generation empties both stacks.
FutureCleared ==
    [][ /\ SnapshotAction =>
              /\ past' = Append(past, [nodes |-> nodes, edges |-> edges])
              /\ future' = <<>>
        /\ Generation => past' = <<>> /\ future' = <<>>
      ]_vars

\* C21 witness: the last of three actions recorded a snapshot of the layout
\* as generated and changed the canvas; the redo stack is empty.
FutureClearedWitness ==
    /\ now = 3
    /\ Len(past) = 1
    /\ ~LayoutThrows(currentFSMData)
    /\ past[1].nodes = LayoutElements(currentFSMData).nodes
    /\ Len(nodes) < Len(past[1].nodes)
    /\ future = <<>>

\* C22: Snapshot before each mutation - every user action that changes the
\* node or the edge collection (structural action, inspector or table edit,
\* drag) leaves a copy of the collections as they were just before it on top
\* of the undo history, which is what one undo restores.
SnapshotBeforeMutation ==
    [][ (Editing \/ Connecting \/ handleAutoWire)
            /\ (nodes' # nodes \/ edges' # edges)
        => /\ past' # <<>>
           /\ past'[Len(past')] = [nodes |-> nodes, edges |-> edges]
      ]_vars

\* A graph description with a state list whose transitions all name states.
WellFormedData(data) ==
    /\ "states" \in DOMAIN data
    /\ "transitions" \in DOMAIN data
    /\ \A k \in DOMAIN data.transitions :
          /\ data.transitions[k].source \in IdsOf(data.states)
          /\ data.transitions[k].target \in IdsOf(data.states)

\* An extraction that failed or whose result is malformed.
FailedExtraction(outcome) ==
    outcome.kind = "error" \/ ~WellFormedData(outcome.data)

\* C23: Upstream failure propagation - when the extraction fails or returns
\* a malformed result, an error is shown, the layout is not computed (the
\* canvas keeps its nodes and edges) and the stored graph description is not
\* replaced.
FailurePropagated ==
    [][ \A outcome \in Outcomes :
          FailedExtraction(outcome) /\ handleVisualizeSettled(outcome)
          => /\ error' # Null
             /\ currentFSMData' = currentFSMData
             /\ nodes' = nodes
             /\ edges' = edges
      ]_vars

\* The part of C23 the code keeps: an extraction that throws shows the error
\* and leaves description, canvas and history alone.
ThrownErrorShown ==
    [][ handleVisualizeSettled([kind |-> "error"])
          => /\ error' = ParsingFailed
             /\ UNCHANGED <<currentFSMData, nodes, edges, past, future>>
      ]_vars

\* C24: Termination - the greedy rim-ordering loop ends for every input
\* (cycles, self-loops, parallel edges, transitions naming no state): the
\* function reaches its end; every iteration starts from an id not yet
\* visited and marks exactly that one id, so there are never more iterations
\* than rim states; at the end there is one edge per transition and the
\* ordering is the one the function returns.
LoopTerminates ==
    /\ <>(pc = "done")
    /\ [][ whileBody => /\ currentId \notin visited
                        /\ visited' = visited \cup {currentId}
                        /\ iterations' <= Len(rimNodesOfHub)
         ]_vars
    /\ [](pc = "done" => /\ Len(layoutedEdges) = Len(fsmData.transitions)
                         /\ iterations <= Len(rimNodesOfHub)
                         /\ sortedRimNodes = SortRim(fsmData, hubId))

\* C24 witness: the function has ended after a walk that visited an id
\* naming no state and a state with a self-loop.
LoopTerminatesWitness ==
    /\ pc = "done"
    /\ DanglingId \in visited
    /\ iterations >= 3
    /\ \E k \in DOMAIN fsmData.transitions :
          /\ fsmData.transitions[k].source = fsmData.transitions[k].target
          /\ fsmData.transitions[k].source \in visited

\* C25: Undo/redo ordering - undo on an empty undo stack and redo on an empty
\* redo stack change nothing; otherwise undo restores the snapshot recorded
\* last and puts the current collections at the front of the redo stack, redo
\* restores the front of the redo stack and puts the current collections on
\* top of the undo stack; redo after undo and undo after redo give back the
\* nodes, edges and both stacks, and neither changes the number of entries
\* of the two stacks together.
UndoRedoOrdering ==
    LET h == History
        u == Undone(h)
        r == Redone(h)
        current == [nodes |-> nodes, edges |-> edges]
    IN  /\ past = <<>> => u = h
        /\ future = <<>> => r = h
        /\ past # <<>> =>
              /\ [nodes |-> u.nodes, edges |-> u.edges] = past[Len(past)]
              /\ u.past = SubSeq(past, 1, Len(past) - 1)
              /\ u.future[1] = current /\ Tail(u.future) = future
              /\ Redone(u) = h
        /\ future # <<>> =>
              /\ [nodes |-> r.nodes, edges |-> r.edges] = future[1]
              /\ r.past[Len(r.past)] = current
              /\ Undone(r) = h
        /\ Len(u.past) + Len(u.future) = Len(past) + Len(future)
        /\ Len(r.past) + Len(r.future) = Len(past) + Len(future)

\* C25 witness: an action was undone while an earlier snapshot is still on
\* the undo stack; the three canvases (undo stack, current, redo stack) differ.
UndoRedoOrderingWitness ==
    /\ past # <<>>
    /\ future # <<>>
    /\ past[Len(past)] # [nodes |-> nodes, edges |-> edges]
    /\ future[1] # [nodes |-> nodes, edges |-> edges]
    /\ future[1] # past[Len(past)]

\* The step appended one manual edge from the pending source to the clicked
\* handle and recorded one snapshot.
ManualEdgeAdded(nodeId, handleId) ==
    /\ past' = Append(past, [nodes |-> nodes, edges |-> edges])
    /\ Len(edges') = Len(edges) + 1
    /\ SubSeq(edges', 1, Len(edges)) = edges
    /\ LET e == edges'[Len(edges')]
       IN  /\ e.source = sourceSelection.nodeId
           /\ e.sourceHandle = sourceSelection.handleId
           /\ e.target = nodeId
           /\ e.targetHandle = handleId \o "-t"
           /\ e.type # "radial"
           /\ e.data.isManual

\* An edge with these ends and handles is on the canvas.
ConnectionExists(source, target, sourceHandle, targetHandle) ==
    \E k \in DOMAIN edges :
        /\ edges[k].source = source
        /\ edges[k].target = target
        /\ "sourceHandle" \in DOMAIN edges[k]
        /\ edges[k].sourceHandle = sourceHandle
        /\ edges[k].targetHandle = targetHandle

\* C26 as stated: in connect mode the first handle click only records the
\* pending source; the second, when both nodes exist, records one snapshot
\* and creates the manual edge; when a node is gone nothing is made; the
\* pending selection is cleared after the second click.
ClickToConnect ==
    [][ \A nodeId \in CircleIds : \A handleId \in HandleIds :
          isConnectMode /\ handleHandleClick(nodeId, handleId) =>
            /\ nodes' = nodes
            /\ IF sourceSelection = Null
               THEN /\ sourceSelection' = [nodeId |-> nodeId, handleId |-> handleId]
                    /\ UNCHANGED <<edges, past, future>>
               ELSE /\ sourceSelection' = Null
                    /\ IF HasId(nodes, sourceSelection.nodeId)
                       THEN ManualEdgeAdded(nodeId, handleId)
                       ELSE UNCHANGED <<edges, past, future>>
      ]_vars

\* C26: the same protocol, except that the second click creates no edge
\* when an edge with the same source, target and handles is already on the
\* canvas: the snapshot is recorded and the edges stay as they are.
ClickToConnectOnce ==
    [][ \A nodeId \in CircleIds : \A handleId \in HandleIds :
          isConnectMode /\ handleHandleClick(nodeId, handleId) =>
            /\ nodes' = nodes
            /\ IF sourceSelection = Null
               THEN /\ sourceSelection' = [nodeId |-> nodeId, handleId |-> handleId]
                    /\ UNCHANGED <<edges, past, future>>
               ELSE /\ sourceSelection' = Null
                    /\ IF ~HasId(nodes, sourceSelection.nodeId)
                       THEN UNCHANGED <<edges, past, future>>
                       ELSE IF ConnectionExists(sourceSelection.nodeId, nodeId,
                                                sourceSelection.handleId,
                                                handleId \o "-t")
                            THEN /\ edges' = edges
                                 /\ past' = Append(past, [nodes |-> nodes,
                                                          edges |-> edges])
                                 /\ future' = <<>>
                            ELSE ManualEdgeAdded(nodeId, handleId)
      ]_vars

\* C26 witness: two clicks on handles of one node made a manual self-loop
\* from its left handle to its right one.
ClickToConnectOnceWitness ==
    /\ sourceSelection = Null
    /\ past # <<>>
    /\ \E k \in DOMAIN edges :
          /\ edges[k].type # "radial"
          /\ edges[k].source = edges[k].target
          /\ edges[k].sourceHandle = "left"
          /\ edges[k].targetHandle = "right-t"

(***************************************************************************)
(* C27: no pending selection outside connect mode.  Whenever connect mode  *)
(* is off there is no pending source selection; a handle click while       *)
(* connect mode is off changes neither the nodes, the edges, the history,  *)
(* the mode nor the pending selection; every step that turns connect mode  *)
(* off (the Move button, a successful generation, auto-wire) and every     *)
(* click on the canvas background leaves no pending selection; and a       *)
(* click completes a manual edge only from a selection made in connect     *)
(* mode, while connect mode is still on.                                   *)
(***************************************************************************)
HandleClick ==
    \E nodeId \in CircleIds : \E handleId \in HandleIds :
       handleHandleClick(nodeId, handleId)

NoPendingOutsideConnectMode ==
    /\ [](~isConnectMode => sourceSelection = Null)
    /\ [][(~isConnectMode /\ HandleClick) =>
             UNCHANGED <<nodes, edges, past, future, isConnectMode,
                         sourceSelection, currentFSMData>>]_vars
    /\ [][((isConnectMode /\ ~isConnectMode') \/ handlePaneClick) =>
             sourceSelection' = Null]_vars
    /\ [][(HandleClick /\ edges' # edges) =>
             isConnectMode /\ sourceSelection # Null]_vars

\* Connect mode has been used to click an edge from a left handle and has
\* been left since; nothing is pending.
NoPendingOutsideConnectModeWitness ==
    /\ ~isConnectMode
    /\ sourceSelection = Null
    /\ \E k \in DOMAIN edges :
          /\ edges[k].type # "radial"
          /\ edges[k].sourceHandle = "left"

(***************************************************************************)
(* C28: grouping loses no node.  Every step of handleGroupNodes adds       *)
(* exactly one node, a group; the selected nodes that were neither groups  *)
(* nor children are made its children, with positions relative to it; and  *)
(* every node of the canvas before the step is on the canvas after it,     *)
(* the selected children of other groups included.                         *)
(***************************************************************************)
NodeOf(list, id) == list[FindIndex(list, id)]

GroupingLosesNoNode ==
    [][\A sel \in GroupSelections :
          (canGroup(sel) /\ handleGroupNodes(sel)) =>
             LET ungrouped == { id \in sel \cap IdsOf(nodes) :
                                   /\ NodeOf(nodes, id).type # "group"
                                   /\ Field(NodeOf(nodes, id), "parentNode")
                                         = Undefined }
                 added     == IdsOf(nodes') \ IdsOf(nodes)
             IN  /\ Cardinality(added) = 1
                 /\ \A g \in added :
                       /\ NodeOf(nodes', g).type = "group"
                       /\ \A id \in ungrouped :
                             /\ HasId(nodes', id)
                             /\ NodeOf(nodes', id).parentNode = g
                             /\ NodeOf(nodes', id).position =
                                   RelativePosition(NodeOf(nodes, id).position,
                                                    NodeOf(nodes', g).position)
                 /\ IdsOf(nodes) \subseteq IdsOf(nodes')]_vars

(***************************************************************************)
(* C29: group containment is flat and acyclic.  In every state reached by  *)
(* grouping, ungrouping, deleting, undoing, redoing, auto-wiring and       *)
(* generating, no group node has a parent and no node's parent has a       *)
(* parent; and every ungroup step removes the selected groups and leaves   *)
(* each of their children on the canvas without a parent, at the group's   *)
(* position plus the child's relative position.                            *)
(***************************************************************************)
ParentOf(n) == Field(n, "parentNode")

FlatContainment ==
    /\ [](\A k \in DOMAIN nodes :
             /\ nodes[k].type = "group" => ParentOf(nodes[k]) = Undefined
             /\ \A j \in DOMAIN nodes :
                   ParentOf(nodes[k]) = nodes[j].id =>
                      /\ nodes[j].type = "group"
                      /\ ParentOf(nodes[j]) = Undefined)
    /\ [][\A sel \in GroupSelections :
             (canUngroup(sel) /\ handleUngroupNodes(sel)) =>
                \A g \in DOMAIN nodes :
                   (nodes[g].id \in sel /\ nodes[g].type = "group") =>
                      /\ ~HasId(nodes', nodes[g].id)
                      /\ \A c \in DOMAIN nodes :
                            ParentOf(nodes[c]) = nodes[g].id =>
                               /\ HasId(nodes', nodes[c].id)
                               /\ ParentOf(NodeOf(nodes', nodes[c].id)) = Undefined
                               /\ NodeOf(nodes', nodes[c].id).position =
                                     AbsolutePosition(nodes[g].position,
                                                      nodes[c].position)]_vars

\* A group was dissolved and another still holds its children: a former
\* child is on the canvas with its parent reset, next to a group with
\* children.
FlatContainmentWitness ==
    /\ \E k \in DOMAIN nodes :
          /\ "parentNode" \in DOMAIN nodes[k]
          /\ nodes[k].parentNode = Undefined
    /\ \E k, j \in DOMAIN nodes :
          /\ nodes[j].type = "group"
          /\ ParentOf(nodes[k]) = nodes[j].id

(***************************************************************************)
(* C30: generation outcome.  The processing flag is set exactly while an   *)
(* extraction is awaited, and every settling resets it, whether the        *)
(* extraction succeeded, failed or the layout threw.  A settling that      *)
(* fails leaves the nodes, the edges and both history stacks as they were  *)
(* and sets the error message.  Generate with blank code changes nothing.  *)
(* A settling that succeeds puts the layout of the result on the canvas    *)
(* and empties both stacks, whatever was edited in the meantime.           *)
(***************************************************************************)
Fails(outcome) == outcome.kind = "error" \/ LayoutThrows(outcome.data)

====
